---------------------------- MODULE Spec2Model ----------------------------
(***************************************************************************)
(* AlphaAgent (backup/single-vm/app-demo): the embedding indexer           *)
(* (indexer.py), the NIM gateway client (nim_client.py), the calculator    *)
(* and policy skills (skills/) and the query orchestrator (agent.py),      *)
(* as state machines.                                                      *)
(*                                                                         *)
(* Numbers.  A component of an embedding is a decimal with one fractional  *)
(* digit, held as an integer count of tenths (7 is 0.7); a spreadsheet     *)
(* value is a whole number.  A numpy float32 is held as a count of 1/Unit: *)
(* every float32 operation of the source (the cast, the division by the    *)
(* norm, each product of the matrix-vector product) rounds its exact       *)
(* result to the nearest representable value, as IEEE-754 does.            *)
(***************************************************************************)
EXTENDS Integers, Sequences, FiniteSets, TLC

VARIABLES
    \* ---- indexer.py: the persisted index and the loaded index ----
    index_exists,   \* index.jsonl exists at <index_root>
    index_lines,    \* the lines of index.jsonl, in file order
    load_state,     \* load_index: "no" (not called) | "yes" (returned) | the exception it raised
    records,        \* load_index: recs
    matrix,         \* load_index: mat (row i is a sequence of float32)
    \* ---- indexer.py: one query_index call ----
    qvec,           \* query_index: the embedding the gateway gave for the query
    top_k,          \* query_index argument
    out,            \* query_index: the list it returned
    qstate,         \* "idle" | "returned" | "raised"
    qexc,           \* the exception query_index raised
    \* ---- indexer.py: build_index ----
    documents,      \* the files under <data_root>, a set of [path, name, suffix, readable, text]
    params,         \* build_index arguments: [chunk_chars, chunk_overlap, batch_size]
    manifest_exists,\* manifest.json exists at <index_root>
    manifest,       \* what manifest.json holds
    bstate,         \* where the current build_index call stands
    bexc,           \* the exception build_index raised
    chunks,         \* build_index: chunks
    embeddings,     \* build_index: embeddings
    next_doc,       \* position in _iter_files of the next file to read
    next_batch,     \* build_index: i, the offset of the next batch
    docs_read,      \* number of documents opened so far, over all calls
    embed_calls,    \* number of embedding requests sent so far, over all calls
    build_calls,    \* number of build_index calls started
    \* ---- agent.py: one run_query call ----
    question,       \* run_query argument
    pc,             \* the step run_query is at, "returned" or "raised"
    query_type,     \* run_query: query_type
    tickers,        \* run_query: tickers
    result,         \* run_query: result, the AgentResult being filled
    all_metrics,    \* run_query: all_metrics
    all_metrics_numeric, \* run_query: all_metrics_numeric
    ti,             \* position in tickers of the current loop
    rows_left,      \* sheet rows the metrics files not yet read may hold
    rexc,           \* the exception run_query raised
    files_read,     \* ticker -> what run_query found at <ticker>_Key_Metrics.xlsx
    llm_request,    \* the messages run_query sent to the completion gateway
    delivered,      \* what run_query returned to its caller: <<>> or <<AgentResult>>
    \* a call of one function of nim_client.py or skills/
    fn,             \* the function called, "" before the call
    args,           \* its arguments
    ret,            \* <<>> until it ends, then <<what it returned or raised>>
    frame           \* the local variables of the calls that run step by step

idx_vars == <<index_exists, index_lines, load_state, records, matrix>>
qry_vars == <<qvec, top_k, out, qstate, qexc>>
bld_vars == <<documents, params, manifest_exists, manifest, bstate, bexc, chunks,
              embeddings, next_doc, next_batch, docs_read, embed_calls, build_calls>>
rq_vars == <<question, pc, query_type, tickers, result, all_metrics, all_metrics_numeric,
             ti, rows_left, rexc, files_read, llm_request, delivered>>
fn_vars == <<fn, args, ret, frame>>
vars == <<idx_vars, qry_vars, bld_vars, rq_vars, fn_vars>>

---------------------------------------------------------------------------
(* Arithmetic *)

Abs(x) == IF x < 0 THEN -x ELSE x

Min(a, b) == IF a <= b THEN a ELSE b

\* a / b rounded to the nearest integer, halves away from zero (b # 0).
RoundDiv(a, b) ==
    LET q == (2 * Abs(a) + Abs(b)) \div (2 * Abs(b))
    IN  IF (a < 0) = (b < 0) THEN q ELSE -q

RECURSIVE ISqrtBetween(_, _, _)
\* The largest r in lo..hi with r * r <= n (bisection).
ISqrtBetween(n, lo, hi) ==
    IF lo >= hi THEN lo
    ELSE LET mid == (lo + hi + 1) \div 2
         IN  IF mid * mid <= n THEN ISqrtBetween(n, mid, hi)
                               ELSE ISqrtBetween(n, lo, mid - 1)

\* sqrt(n) rounded to the nearest integer (the root of a 31-bit n is below
\* 2^16, and the bisection never squares more than that).
RoundSqrt(n) ==
    LET r == ISqrtBetween(n, 0, Min(n, 46340))
    IN  IF n - r * r > r THEN r + 1 ELSE r

RECURSIVE SumSeq(_)
SumSeq(s) == IF s = <<>> THEN 0 ELSE Head(s) + SumSeq(Tail(s))

\* The precision of the modelled float32: one unit in the last place is
\* 1/Unit (indexer.py casts with dtype=np.float32).
Unit == 128

\* np.array(..., dtype=np.float32) of a decimal given in tenths.
ToFloat32(tenths) == RoundDiv(tenths * Unit, 10)

\* np.linalg.norm of a float32 vector.
Norm(v) == RoundSqrt(SumSeq([i \in DOMAIN v |-> v[i] * v[i]]))

\* v / (norm(v) + 1e-12): 1e-12 is below the resolution of every non-zero
\* norm, and keeps the quotient of an all-zero vector at 0 / 1e-12 = 0.
Normalize(v) ==
    LET n == Norm(v)
    IN  [i \in DOMAIN v |-> IF n = 0 THEN 0 ELSE RoundDiv(v[i] * Unit, n)]

\* One entry of matrix @ q: a sum of float32 products.
Dot(a, b) == SumSeq([i \in DOMAIN a |-> RoundDiv(a[i] * b[i], Unit)])


---------------------------------------------------------------------------
(* nim_client.py: the gateway client.  A reply of the gateway is a record  *)
(* [transport, status, body]: transport "error" is requests.post raising   *)
(* (connection refused, timeout); body is the parsed JSON object.          *)

Return(v) == [exc |-> "none", message |-> <<>>, val |-> v]

Raise(type, message) == [exc |-> type, message |-> message, val |-> <<>>]

EmbeddingsUrl == "/v1/embeddings"

ChatUrl == "/v1/chat/completions"

\* _post_json: a status >= 400 raises NIMError("HTTP <status> from <url>: ...");
\* an exception of requests.post propagates as it is.
PostJson(url, reply) ==
    IF reply.transport = "error" THEN Raise("RequestException", <<url>>)
    ELSE IF reply.status >= 400
         THEN Raise("NIMError", <<"HTTP status from", url>>)
         ELSE Return(reply.body)

\* embed_texts: NIMError when the body has no "data"; item["embedding"] of an
\* item without that key is a KeyError.
EmbedTexts(reply) ==
    LET r == PostJson(EmbeddingsUrl, reply)
    IN  IF r.exc # "none" THEN r
        ELSE IF "data" \notin DOMAIN r.val
             THEN Raise("NIMError", <<"Unexpected embeddings response">>)
        ELSE IF \E i \in DOMAIN r.val.data : "embedding" \notin DOMAIN r.val.data[i]
             THEN Raise("KeyError", <<"embedding">>)
        ELSE Return([i \in DOMAIN r.val.data |-> r.val.data[i].embedding])

\* chat_completion: out["choices"][0]["message"]["content"], a KeyError or
\* IndexError on the way becoming NIMError.
ChatCompletion(reply) ==
    LET r == PostJson(ChatUrl, reply)
    IN  IF r.exc # "none" THEN r
        ELSE IF \/ "choices" \notin DOMAIN r.val
                \/ r.val.choices = <<>>
                \/ "message" \notin DOMAIN r.val.choices[1]
                \/ "content" \notin DOMAIN r.val.choices[1].message
             THEN Raise("NIMError", <<"Unexpected chat response structure">>)
        ELSE Return(r.val.choices[1].message.content)

\* The replies the embedding gateway can give to a request: the vectors
\* asked for, or a failure of each kind the client distinguishes.
OkEmbedReply(vecs) ==
    [transport |-> "ok", status |-> 200,
     body |-> [data |-> [i \in DOMAIN vecs |-> [embedding |-> vecs[i]]]]]

FailedEmbedReplies ==
    { [transport |-> "error", status |-> 0, body |-> [error |-> "x"]],
      [transport |-> "ok", status |-> 500, body |-> [error |-> "x"]],
      [transport |-> "ok", status |-> 200, body |-> [error |-> "x"]],
      [transport |-> "ok", status |-> 200, body |-> [data |-> <<[object |-> "x"]>>]],
      [transport |-> "ok", status |-> 200, body |-> [data |-> <<>>]] }

---------------------------------------------------------------------------
(* The state before any call *)

NoExc == Return(<<>>)

QryIdle ==
    /\ qvec = <<>>
    /\ top_k = 0
    /\ out = <<>>
    /\ qstate = "idle"
    /\ qexc = NoExc

NoManifest == [num_chunks |-> 0, num_documents |-> 0, chunk_chars |-> 0, chunk_overlap |-> 0]

\* No build_index call has been made.
BldIdle ==
    /\ bstate = "idle"
    /\ bexc = NoExc
    /\ chunks = <<>>
    /\ embeddings = <<>>
    /\ next_doc = 1
    /\ next_batch = 0
    /\ docs_read = 0
    /\ embed_calls = 0
    /\ build_calls = 0

\* AgentResult()
NewAgentResult ==
    [answer |-> "", trace |-> <<>>, citations |-> <<>>, compliance |-> <<>>,
     math_results |-> <<>>]

\* No run_query call has been made.
RqIdle ==
    /\ question = <<>>
    /\ pc = "idle"
    /\ query_type = ""
    /\ tickers = <<>>
    /\ result = NewAgentResult
    /\ all_metrics = [k \in {} |-> 0]
    /\ all_metrics_numeric = [k \in {} |-> 0]
    /\ ti = 1
    /\ rows_left = 0
    /\ rexc = NoExc
    /\ files_read = [k \in {} |-> 0]
    /\ llm_request = <<>>
    /\ delivered = <<>>

\* No function has been called on its own.
FnIdle ==
    /\ fn = ""
    /\ args = <<>>
    /\ ret = <<>>
    /\ frame = <<>>

\* No document store is in play.
NoStore ==
    /\ documents = {}
    /\ params = [chunk_chars |-> 0, chunk_overlap |-> 0, batch_size |-> 0]
    /\ manifest_exists = FALSE
    /\ manifest = NoManifest

---------------------------------------------------------------------------
(* indexer.py: load_index and query_index *)

\* The embedding vectors the gateway returns, in tenths: the three of the
\* spec's scenario, the zero vector, an opposite and a parallel one.
EmbedVectors ==
    { <<10, 0>>, <<0, 10>>, <<7, 7>>, <<0, 0>>, <<-10, 0>>, <<10, 10>> }

\* The embeddings of the spec's 3-chunk scenario.
ScenarioIndex == <<<<10, 0>>, <<0, 10>>, <<7, 7>>>>

\* The largest index the model loads.
MaxRecords == 3

DocOf(i) == IF i <= 2 THEN "a.pdf" ELSE "b.xlsx"

\* The record build_index writes for the i-th chunk of the corpus.
IndexRecord(i, e) ==
    [doc_id |-> DocOf(i), chunk_id |-> IF i <= 2 THEN i - 1 ELSE i - 3,
     source_path |-> DocOf(i), text |-> <<"t", i>>, embedding |-> e]

\* json.dumps(rec): the members of the object as key and value, in the
\* order the dict was filled.
JsonDumps(rec) ==
    <<<<"doc_id", rec.doc_id>>, <<"chunk_id", rec.chunk_id>>,
      <<"source_path", rec.source_path>>, <<"text", rec.text>>,
      <<"embedding", rec.embedding>>>>

\* json.loads(line): the dict of the members of the object.
JsonLoads(line) ==
    [k \in { line[i][1] : i \in DOMAIN line } |->
        line[CHOOSE i \in DOMAIN line : line[i][1] = k][2]]

\* The lines build_index writes for a sequence of records.
JsonLines(recs) == [i \in DOMAIN recs |-> JsonDumps(recs[i])]

IndexFiles ==
    UNION { { JsonLines([i \in 1..n |-> IndexRecord(i, es[i])])
              : es \in [1..n -> EmbedVectors] }
            : n \in 0..MaxRecords }

RECURSIVE LoadRecords(_)
\* load_index, lines 165-172: one record per line that is not blank (<<>>),
\* in file order.
LoadRecords(lines) ==
    IF lines = <<>> THEN <<>>
    ELSE (IF Head(lines) = <<>> THEN <<>> ELSE <<JsonLoads(Head(lines))>>)
         \o LoadRecords(Tail(lines))

\* load_index, lines 174-177: the float32 matrix of the embeddings, each row
\* divided by its norm.
LoadMatrix(lines) ==
    LET recs == LoadRecords(lines)
    IN  [i \in DOMAIN recs |->
            Normalize([j \in DOMAIN recs[i].embedding |-> ToFloat32(recs[i].embedding[j])])]

\* query_index, lines 193-196: scores = matrix @ (q / (norm(q) + 1e-12)).
Scores(mat, qv) ==
    LET q == Normalize([j \in DOMAIN qv |-> ToFloat32(qv[j])])
    IN  [i \in DOMAIN mat |-> Dot(mat[i], q)]

\* np.argsort(a) with the default kind ("quicksort", which numpy documents as
\* not stable): every permutation that puts a in ascending order.
Argsort(a) ==
    { p \in [DOMAIN a -> DOMAIN a] :
        /\ \A i, j \in DOMAIN a : i # j => p[i] # p[j]
        /\ \A i \in DOMAIN a : i + 1 \in DOMAIN a => a[p[i]] <= a[p[i + 1]] }

\* A slice that runs one element too far.
TakeOneMore(s, k) == SubSeq(s, 1, Min(k + 1, Len(s)))

\* s[:k] for k >= 0.
Take(s, k) == SubSeq(s, 1, Min(k, Len(s)))

\* A copy of the record that keeps "embedding".
HitWithEmbedding(rec, score) ==
    [f \in DOMAIN rec \cup {"score"} |-> IF f = "score" THEN score ELSE rec[f]]

\* query_index, lines 201-203: a copy of the record without "embedding",
\* with "score".
Hit(rec, score) ==
    [f \in (DOMAIN rec \ {"embedding"}) \cup {"score"} |->
        IF f = "score" THEN score ELSE rec[f]]

\* query_index, lines 196-205, for each order argsort may return.
QueryIndex(recs, mat, qv, k) ==
    LET scores == Scores(mat, qv)
    IN  { [n \in DOMAIN Take(idxs, k) |-> Hit(recs[idxs[n]], scores[idxs[n]])]
          : idxs \in Argsort([i \in DOMAIN scores |-> -scores[i]]) }

\* load_index(index_root).
LoadIndex ==
    /\ load_state = "no"
    /\ \/ /\ ~index_exists
          /\ load_state' = "FileNotFoundError"
          /\ UNCHANGED <<records, matrix>>
       \/ /\ index_exists
          /\ LoadRecords(index_lines) = <<>>
          \* np.linalg.norm(axis=1) of the one-dimensional empty array
          /\ load_state' = "AxisError"
          /\ UNCHANGED <<records, matrix>>
       \/ /\ index_exists
          /\ LoadRecords(index_lines) # <<>>
          /\ records' = LoadRecords(index_lines)
          /\ matrix' = LoadMatrix(index_lines)
          /\ load_state' = "yes"
    /\ UNCHANGED <<index_exists, index_lines, qry_vars, bld_vars, rq_vars>>

    /\ UNCHANGED fn_vars
\* query_index(query, records, matrix, top_k): the gateway's reply to the
\* embedding request decides line 192, argsort's order the rest.
QueryIndexCall ==
    /\ load_state = "yes"
    /\ qstate = "idle"
    /\ \E k \in 0..(Len(records) + 1) :
       \E reply \in FailedEmbedReplies \cup { OkEmbedReply(<<v>>) : v \in EmbedVectors } :
          LET r == EmbedTexts(reply)
          IN  /\ top_k' = k
              /\ \/ /\ r.exc # "none"
                    /\ qstate' = "raised"
                    /\ qexc' = r
                    /\ UNCHANGED <<qvec, out>>
                 \/ /\ r.exc = "none"
                    /\ r.val = <<>>
                    /\ qstate' = "raised"
                    /\ qexc' = Raise("IndexError", <<"list index out of range">>)
                    /\ UNCHANGED <<qvec, out>>
                 \/ /\ r.exc = "none"
                    /\ r.val # <<>>
                    /\ qvec' = r.val[1]
                    /\ out' \in QueryIndex(records, matrix, r.val[1], k)
                    /\ qstate' = "returned"
                    /\ qexc' = NoExc
    /\ UNCHANGED <<idx_vars, bld_vars, rq_vars>>

    /\ UNCHANGED fn_vars
InitIndex ==
    /\ index_exists \in BOOLEAN
    /\ index_lines \in IF index_exists THEN IndexFiles ELSE {<<>>}
    /\ load_state = "no"
    /\ records = <<>>
    /\ matrix = <<>>
    /\ QryIdle
    /\ BldIdle
    /\ NoStore
    /\ RqIdle

    /\ FnIdle
NextIndex == LoadIndex \/ QueryIndexCall

SpecIndex == InitIndex /\ [][NextIndex]_vars

---------------------------------------------------------------------------
(* indexer.py: _chunk_text, _iter_files and build_index.  A text is a      *)
(* sequence of characters.                                                 *)

Max(a, b) == IF a >= b THEN a ELSE b

Whitespace == {" ", "\n"}

RECURSIVE SplitFrom(_, _, _)
\* text.split(): the maximal runs of non-whitespace characters, in order.
\* words are the runs closed so far, cur the run being read.
SplitFrom(text, words, cur) ==
    IF text = <<>>
    THEN IF cur = <<>> THEN words ELSE Append(words, cur)
    ELSE IF Head(text) \in Whitespace
         THEN SplitFrom(Tail(text), IF cur = <<>> THEN words ELSE Append(words, cur), <<>>)
         ELSE SplitFrom(Tail(text), words, Append(cur, Head(text)))

RECURSIVE JoinWords(_)
\* " ".join(words)
JoinWords(words) ==
    IF words = <<>> THEN <<>>
    ELSE IF Len(words) = 1 THEN words[1]
    ELSE words[1] \o <<" ">> \o JoinWords(Tail(words))

\* _chunk_text, line 61
NormalizeWhitespace(text) == JoinWords(SplitFrom(text, <<>>, <<>>))

\* A stride that stops at zero instead of one.
StrideNonNegative(chunk_chars, overlap) == Max(0, chunk_chars - overlap)

\* A stride of a whole window, whatever the overlap.
StrideWindow(chunk_chars, overlap) == chunk_chars

\* _chunk_text, line 71: how far the window moves.
Stride(chunk_chars, overlap) == Max(1, chunk_chars - overlap)

RECURSIVE ChunkFrom(_, _, _, _)
\* _chunk_text, lines 66-71: the loop from offset i (0-based).
ChunkFrom(text, i, chunk_chars, overlap) ==
    IF i >= Len(text) THEN <<>>
    ELSE LET chunk == SubSeq(text, i + 1, Min(i + chunk_chars, Len(text)))
         IN  IF i + chunk_chars >= Len(text)
             THEN <<chunk>>
             ELSE <<chunk>> \o ChunkFrom(text, i + Stride(chunk_chars, overlap),
                                         chunk_chars, overlap)

\* _chunk_text(text, chunk_chars, overlap)
ChunkText(text, chunk_chars, overlap) ==
    LET t == NormalizeWhitespace(text)
    IN  IF t = <<>> THEN <<>> ELSE ChunkFrom(t, 0, chunk_chars, overlap)

\* The most files the document store holds.
MaxDocs == 2

\* What a file's extractor returns: nothing, or words separated by runs
\* of whitespace.
DocTexts ==
    { <<>>,
      <<"a", "b", " ", "\n", "c", "d", " ">> }

\* What a file of the store can be: a file that is not readable makes its
\* extractor raise; a .txt file is not indexed.
FileKinds ==
    { k \in [name : {"a", "b"}, suffix : {"pdf", "xlsx", "txt"},
             readable : BOOLEAN, text : DocTexts] :
        /\ ~k.readable => k.text = <<>>
        /\ k.suffix = "txt" => k.readable /\ k.text = <<>>
        /\ k.suffix = "xlsx" => k.readable /\ k.text # <<>> }

\* The stores of at most MaxDocs files; path is the file's rank in the
\* sorted order of paths.
Stores ==
    UNION { { { [path |-> i, name |-> ks[i].name, suffix |-> ks[i].suffix,
                 readable |-> ks[i].readable, text |-> ks[i].text] : i \in 1..n }
              : ks \in [1..n -> FileKinds] }
            : n \in 0..MaxDocs }

RECURSIVE SortedByPath(_)
SortedByPath(fs) ==
    IF fs = {} THEN <<>>
    ELSE LET f == CHOOSE x \in fs : \A y \in fs : x.path <= y.path
         IN  <<f>> \o SortedByPath(fs \ {f})

\* _iter_files: the .pdf and .xlsx files in sorted path order.
IterFiles(fs) == SortedByPath({ f \in fs : f.suffix \in {"pdf", "xlsx"} })

\* build_index, lines 113-115: the chunks of one file.
ChunksOfFile(f, chunk_chars, overlap) ==
    LET texts == ChunkText(f.text, chunk_chars, overlap)
    IN  [n \in DOMAIN texts |->
            [doc_id |-> f.name, chunk_id |-> n - 1, text |-> texts[n], source_path |-> f.path]]

RECURSIVE Zip(_, _)
\* zip(chunks, embeddings), lines 133-141: one record per pair, as many as
\* the shorter list has.
Zip(cs, es) ==
    IF cs = <<>> \/ es = <<>> THEN <<>>
    ELSE <<[doc_id |-> Head(cs).doc_id, chunk_id |-> Head(cs).chunk_id,
            source_path |-> Head(cs).source_path, text |-> Head(cs).text,
            embedding |-> Head(es)]>> \o Zip(Tail(cs), Tail(es))

\* build_index, lines 144-152 (the fields that vary between runs).
Manifest(cs, p) ==
    [num_chunks |-> Len(cs),
     num_documents |-> Cardinality({ cs[n].doc_id : n \in DOMAIN cs }),
     chunk_chars |-> p.chunk_chars, chunk_overlap |-> p.chunk_overlap]

\* The vector the embedding model gives a text, in tenths.
EmbeddingOf(text) == <<Len(text), IF text # <<>> /\ text[1] = "a" THEN 10 ELSE 0>>

\* The replies to an embedding request for texts: their vectors, one vector
\* too few, or a failure.
EmbedReplies(texts) ==
    FailedEmbedReplies
    \cup { OkEmbedReply([n \in DOMAIN texts |-> EmbeddingOf(texts[n])]),
           OkEmbedReply([n \in 1..(Len(texts) - 1) |-> EmbeddingOf(texts[n])]) }

\* A call that never finds the index.
NeverSkip(exists) == FALSE

\* A call that returns at once whether or not the index is there.
AlwaysSkip(exists) == TRUE

\* build_index, line 100: the idempotence check.
SkipRebuild(exists) == exists

\* The most build_index calls of one run of the model.
MaxBuilds == 2

\* build_index is called: lines 92-102.
BuildStart ==
    /\ bstate \in {"idle", "done", "raised"}
    /\ build_calls < MaxBuilds
    /\ build_calls' = build_calls + 1
    /\ chunks' = <<>>
    /\ embeddings' = <<>>
    /\ next_doc' = 1
    /\ next_batch' = 0
    /\ bexc' = NoExc
    /\ bstate' = IF SkipRebuild(index_exists) THEN "done" ELSE "read"
    /\ UNCHANGED <<documents, params, manifest_exists, manifest, docs_read, embed_calls,
                   idx_vars, qry_vars, rq_vars>>

    /\ UNCHANGED fn_vars
\* build_index, lines 106-119: one turn of the loop over _iter_files, or
\* its end.
BuildReadDoc ==
    /\ bstate = "read"
    /\ LET files == IterFiles(documents)
       IN  \/ /\ next_doc <= Len(files)
              /\ files[next_doc].readable
              /\ chunks' = chunks \o ChunksOfFile(files[next_doc], params.chunk_chars,
                                                  params.chunk_overlap)
              /\ next_doc' = next_doc + 1
              /\ docs_read' = docs_read + 1
              /\ UNCHANGED <<bstate, bexc>>
           \/ /\ next_doc <= Len(files)
              /\ ~files[next_doc].readable
              \* _read_pdf / _read_xlsx raises; nothing catches it
              /\ bstate' = "raised"
              /\ bexc' = Raise("ExtractionError", <<files[next_doc].name>>)
              /\ docs_read' = docs_read + 1
              /\ UNCHANGED <<chunks, next_doc>>
           \/ /\ next_doc > Len(files)
              /\ bstate' = IF chunks = <<>> THEN "done" ELSE "embed"
              /\ UNCHANGED <<chunks, next_doc, docs_read, bexc>>
    /\ UNCHANGED <<documents, params, manifest_exists, manifest, embeddings, next_batch,
                   embed_calls, build_calls, idx_vars, qry_vars, rq_vars>>

    /\ UNCHANGED fn_vars
\* build_index, lines 124-127: one batch, or the end of the loop.
BuildEmbedBatch ==
    /\ bstate = "embed"
    /\ \/ /\ next_batch < Len(chunks)
          /\ LET batch == SubSeq(chunks, next_batch + 1,
                                 Min(next_batch + params.batch_size, Len(chunks)))
             IN  \E reply \in EmbedReplies([n \in DOMAIN batch |-> batch[n].text]) :
                    LET r == EmbedTexts(reply)
                    IN  /\ embed_calls' = embed_calls + 1
                        /\ \/ /\ r.exc # "none"
                              /\ bstate' = "raised"
                              /\ bexc' = r
                              /\ UNCHANGED <<embeddings, next_batch>>
                           \/ /\ r.exc = "none"
                              /\ embeddings' = embeddings \o r.val
                              /\ next_batch' = next_batch + params.batch_size
                              /\ UNCHANGED <<bstate, bexc>>
       \/ /\ next_batch >= Len(chunks)
          /\ bstate' = "write"
          /\ UNCHANGED <<embeddings, next_batch, embed_calls, bexc>>
    /\ UNCHANGED <<documents, params, manifest_exists, manifest, chunks, next_doc,
                   docs_read, build_calls, idx_vars, qry_vars, rq_vars>>

    /\ UNCHANGED fn_vars
\* build_index, lines 132-156: index.jsonl, then manifest.json.
BuildWrite ==
    /\ bstate = "write"
    /\ index_exists' = TRUE
    /\ index_lines' = JsonLines(Zip(chunks, embeddings))
    /\ manifest_exists' = TRUE
    /\ manifest' = Manifest(chunks, params)
    /\ bstate' = "done"
    /\ UNCHANGED <<documents, params, bexc, chunks, embeddings, next_doc, next_batch,
                   docs_read, embed_calls, build_calls, load_state, records, matrix,
                   qry_vars, rq_vars>>

    /\ UNCHANGED fn_vars
BuildParams == [chunk_chars : {3}, chunk_overlap : {1}, batch_size : {1, 2}]

\* An index a former run left at <index_root>.
FormerIndex == JsonLines(<<IndexRecord(1, <<10, 0>>)>>)

InitBuild ==
    /\ documents \in Stores
    /\ params \in BuildParams
    /\ \/ /\ index_exists = FALSE
          /\ index_lines = <<>>
          /\ manifest_exists = FALSE
          /\ manifest = NoManifest
       \/ /\ index_exists = TRUE
          /\ index_lines = FormerIndex
          /\ manifest_exists = TRUE
          /\ manifest = [NoManifest EXCEPT !.num_chunks = 1, !.num_documents = 1]
    /\ load_state = "no"
    /\ records = <<>>
    /\ matrix = <<>>
    /\ QryIdle
    /\ BldIdle
    /\ RqIdle

    /\ FnIdle
NextBuild == BuildStart \/ BuildReadDoc \/ BuildEmbedBatch \/ BuildWrite

SpecBuild == InitBuild /\ [][NextBuild]_vars

\* build_index and a reader of the index it leaves: load_index is called
\* once, at any time.
NextBuildLoad == NextBuild \/ LoadIndex

SpecBuildLoad == InitBuild /\ [][NextBuildLoad]_vars

---------------------------------------------------------------------------
(* agent.py: detect_tickers and detect_query_type.  A text is a sequence   *)
(* of characters.                                                          *)

LowerLetters ==
    <<"a", "b", "c", "d", "e", "f", "g", "h", "i", "j", "k", "l", "m", "n", "o", "p", "q", "r", "s", "t", "u", "v", "w", "x", "y", "z">>

UpperLetters ==
    <<"A", "B", "C", "D", "E", "F", "G", "H", "I", "J", "K", "L", "M", "N", "O", "P", "Q", "R", "S", "T", "U", "V", "W", "X", "Y", "Z">>

Digits == {"0", "1", "2", "3", "4", "5", "6", "7", "8", "9"}

\* str.upper, str.lower on one character
Upper(c) ==
    IF \E i \in DOMAIN LowerLetters : LowerLetters[i] = c
    THEN UpperLetters[CHOOSE i \in DOMAIN LowerLetters : LowerLetters[i] = c]
    ELSE c

Lower(c) ==
    IF \E i \in DOMAIN UpperLetters : UpperLetters[i] = c
    THEN LowerLetters[CHOOSE i \in DOMAIN UpperLetters : UpperLetters[i] = c]
    ELSE c

UpperText(text) == [i \in DOMAIN text |-> Upper(text[i])]

LowerText(text) == [i \in DOMAIN text |-> Lower(text[i])]

\* w in text
Contains(text, w) ==
    \E i \in 0..(Len(text) - Len(w)) : SubSeq(text, i + 1, i + Len(w)) = w

\* A character the regular expression class \w matches.
WordChar(c) ==
    \/ \E i \in DOMAIN LowerLetters : LowerLetters[i] = c \/ UpperLetters[i] = c
    \/ c \in Digits
    \/ c = "_"

\* re.search(rf"\b{t}\b", text) for a t made of word characters: t occurs
\* with no word character right before it and none right after it.
SearchWord(text, t) ==
    \E i \in 0..(Len(text) - Len(t)) :
        /\ SubSeq(text, i + 1, i + Len(t)) = t
        /\ i = 0 \/ ~WordChar(text[i])
        /\ i + Len(t) = Len(text) \/ ~WordChar(text[i + Len(t) + 1])

\* Known tickers in the synthetic dataset, in registry order.
TICKERS == <<"ALPH", "BETA", "GAMM">>

TickerChars(t) ==
    CASE t = "ALPH" -> <<"A", "L", "P", "H">>
      [] t = "BETA" -> <<"B", "E", "T", "A">>
      [] t = "GAMM" -> <<"G", "A", "M", "M">>

RECURSIVE FoundTickers(_, _, _)
\* [t for t in ts if re.search(..., up)]
FoundTickers(ts, up, n) ==
    IF n > Len(ts) THEN <<>>
    ELSE (IF SearchWord(up, TickerChars(ts[n])) THEN <<ts[n]>> ELSE <<>>)
         \o FoundTickers(ts, up, n + 1)

\* A detection that matches a ticker anywhere, also inside a longer word,
\* and reports the tickers last to first.
RECURSIVE SubstringTickers(_, _)
SubstringTickers(up, n) ==
    IF n > Len(TICKERS) THEN <<>>
    ELSE SubstringTickers(up, n + 1)
         \o (IF Contains(up, TickerChars(TICKERS[n])) THEN <<TICKERS[n]>> ELSE <<>>)

DetectTickersLoose(text) == SubstringTickers(UpperText(text), 1)

\* A detection that leaves the text in the case it was typed in.
DetectTickersCaseSensitive(text) == FoundTickers(TICKERS, text, 1)

\* detect_tickers(text)
DetectTickers(text) == FoundTickers(TICKERS, UpperText(text), 1)

MemoWords ==
    { <<"m", "e", "m", "o">>,
      <<"i", "n", "v", "e", "s", "t", "m", "e", "n", "t", " ", "b", "r", "i", "e", "f">>,
      <<"i", "n", "v", "e", "s", "t", "m", "e", "n", "t", " ", "m", "e", "m", "o">> }

ComplianceWords ==
    { <<"c", "o", "m", "p", "l", "i", "a", "n", "c", "e">>,
      <<"p", "o", "l", "i", "c", "y">>,
      <<"r", "e", "g", "u", "l", "a", "t", "i", "o", "n">>,
      <<"s", "u", "r", "v", "e", "i", "l", "l", "a", "n", "c", "e">>,
      <<"a", "u", "d", "i", "t">> }

ComparisonWords ==
    { <<"c", "o", "m", "p", "a", "r", "e">>,
      <<"v", "e", "r", "s", "u", "s">>,
      <<"v", "s">>,
      <<"a", "c", "r", "o", "s", "s">> }

MathWords ==
    { <<"c", "a", "l", "c", "u", "l", "a", "t", "e">>,
      <<"v", "a", "r", "i", "a", "n", "c", "e">>,
      <<"y", "o", "y">>,
      <<"m", "a", "r", "g", "i", "n">>,
      <<"r", "a", "t", "i", "o">> }

\* any(w in lower for w in words)
AnyIn(words, lower) == \E w \in words : Contains(lower, w)

\* A routing that looks for the compliance keywords before the memo keywords.
DetectQueryTypeComplianceFirst(text) ==
    LET lower == LowerText(text)
    IN  IF AnyIn(ComplianceWords, lower) THEN "compliance"
        ELSE IF AnyIn(MemoWords, lower) THEN "memo"
        ELSE IF AnyIn(ComparisonWords, lower) THEN "comparative"
        ELSE IF AnyIn(MathWords, lower) THEN "math"
        ELSE "rag"

\* detect_query_type(text)
DetectQueryType(text) ==
    LET lower == LowerText(text)
    IN  IF AnyIn(MemoWords, lower) THEN "memo"
        ELSE IF AnyIn(ComplianceWords, lower) THEN "compliance"
        ELSE IF AnyIn(ComparisonWords, lower) THEN "comparative"
        ELSE IF AnyIn(MathWords, lower) THEN "math"
        ELSE "rag"

\* The questions asked of the orchestrator.
Questions ==
    { <<"o", "u", "t", "l", "o", "o", "k", "?">>,
      <<"M", "e", "m", "o", " ", "o", "n", " ", "A", "L", "P", "H">>,
      <<"a", "u", "d", "i", "t", " ", "b", "e", "t", "a", ",", " ", "a", "l", "p", "h">>,
      <<"c", "o", "m", "p", "a", "r", "e", " ", "A", "L", "P", "H", "A", "B", "E", "T">>,
      <<"a", "l", "p", "h", " ", "m", "a", "r", "g", "i", "n">>,
      <<"G", "A", "M", "M", " ", "c", "a", "n", "v", "a", "s">>,
      <<"p", "o", "l", "i", "c", "y">>,
      <<"B", "E", "T", "A">> }

---------------------------------------------------------------------------
(* agent.py: load_metrics and load_metrics_numeric.  A sheet is the        *)
(* sequence of its rows; a row holds the cells of columns 1 and 2: a       *)
(* header row has "Metric" in column 1, a blank row nothing, a metric row  *)
(* a name and a value that is a number (numeric) or some other text.       *)

EmptyDict == [k \in {} |-> 0]

\* d[k] = v
DictPut(d, k, v) == [x \in DOMAIN d \cup {k} |-> IF x = k THEN v ELSE d[x]]

HeaderRow == [kind |-> "header", name |-> "Metric", numeric |-> FALSE, value |-> 0]

BlankRow == [kind |-> "blank", name |-> "", numeric |-> FALSE, value |-> 0]

MetricRow(n, v) == [kind |-> "metric", name |-> n, numeric |-> TRUE, value |-> v]

TextRow(n) == [kind |-> "metric", name |-> n, numeric |-> FALSE, value |-> 0]

\* The rows a metrics sheet is made of.
SheetRows ==
    { HeaderRow, BlankRow,
      MetricRow("CapEx_Current", 3),
      MetricRow("CapEx_Prior", 0), MetricRow("CapEx_Prior", 2),
      MetricRow("EBITDA_TTM", 0), MetricRow("EBITDA_TTM", 2), TextRow("EBITDA_TTM"),
      MetricRow("Revenue_TTM", 4),
      MetricRow("NetDebt_to_EBITDA", 3),
      MetricRow("VaR_99_1d", 60) }

\* The most rows the metrics sheets read by one query hold together.
MaxSheetRows == 4

\* The sheets of at most n rows.
Sheets(n) == UNION { [1..len -> SheetRows] : len \in 0..n }

\* range(1, 50): the rows searched for the header.
HeaderScanEnd == 50

\* start_row + 200: the most metric rows read.
MetricRowLimit == 200

\* A scan that takes the first row for the header whatever it holds.
StartRowUnchecked(sheet) == 2

\* Lines 103-108: the row after the first header row among rows
\* 1..HeaderScanEnd - 1, or 0 (None) when there is none.
StartRow(sheet) ==
    LET hs == { r \in DOMAIN sheet : r < HeaderScanEnd /\ sheet[r].kind = "header" }
    IN  IF hs = {} THEN 0 ELSE (CHOOSE r \in hs : \A q \in hs : r <= q) + 1

RECURSIVE ReadRows(_, _, _, _, _)
\* Lines 113-122 and 146-156: the loop from row r; a row past the end of the
\* sheet reads as blank.  numeric_only is load_metrics_numeric, where
\* float(val) of a cell that is no number is skipped.
ReadRows(sheet, r, last, metrics, numeric_only) ==
    IF r >= last \/ r > Len(sheet) \/ sheet[r].kind = "blank" THEN metrics
    ELSE ReadRows(sheet, r + 1, last,
                  IF numeric_only
                  THEN (IF sheet[r].numeric
                        THEN DictPut(metrics, sheet[r].name, sheet[r].value)
                        ELSE metrics)
                  ELSE DictPut(metrics, sheet[r].name,
                               [numeric |-> sheet[r].numeric, value |-> sheet[r].value]),
                  numeric_only)

\* A loader that finds no metric.
LoadMetricsNothing(file) == EmptyDict

\* load_metrics(data_root, ticker) on the ticker's file
LoadMetrics(file) ==
    IF ~file.exists THEN EmptyDict
    ELSE LET start_row == StartRow(file.sheet)
         IN  IF start_row = 0 THEN EmptyDict
             ELSE ReadRows(file.sheet, start_row, start_row + MetricRowLimit, EmptyDict, FALSE)

\* load_metrics_numeric(data_root, ticker) on the ticker's file
LoadMetricsNumeric(file) ==
    IF ~file.exists THEN EmptyDict
    ELSE LET start_row == StartRow(file.sheet)
         IN  IF start_row = 0 THEN EmptyDict
             ELSE ReadRows(file.sheet, start_row, start_row + MetricRowLimit, EmptyDict, TRUE)

\* The files <ticker>_Key_Metrics.xlsx can be, given how many rows are left.
MetricFiles(n) ==
    { [exists |-> FALSE, sheet |-> <<>>] }
    \cup { [exists |-> TRUE, sheet |-> sh] : sh \in Sheets(n) }

---------------------------------------------------------------------------
(* skills/financial_math.py.  A formatted number is held in hundredths.    *)

\* f"{x:.2f}" of x = n / d, in hundredths
Hundredths(n, d) == RoundDiv(n * 100, d)

ErrorResult(text) == [error |-> TRUE, hundredths |-> 0, text |-> text]

NumberResult(h, suffix) == [error |-> FALSE, hundredths |-> h, text |-> suffix]

\* calculate_yoy_variance(current, prior)
CalculateYoyVariance(current, prior) ==
    IF prior = 0
    THEN [formula |-> "((current - prior) / prior) * 100",
          inputs |-> <<current, prior>>,
          result |-> ErrorResult("Error: Division by zero (prior period value is 0)"),
          interpretation |-> "Cannot calculate YoY variance with zero baseline."]
    ELSE LET variance == Hundredths((current - prior) * 100, prior)
             sign == (current - prior) * prior
             direction == IF sign > 0 THEN "increase"
                          ELSE IF sign < 0 THEN "decrease" ELSE "no change"
         IN  [formula |-> "((current - prior) / prior) * 100",
              inputs |-> <<current, prior>>,
              result |-> NumberResult(variance, "%"),
              absolute_change |-> (current - prior) * 100,
              direction |-> direction,
              interpretation |-> <<Abs(variance), direction, prior, current>>]

\* calculate_margin(numerator, denominator)
CalculateMargin(numerator, denominator) ==
    IF denominator = 0
    THEN [formula |-> "EBITDA / Revenue * 100",
          result |-> ErrorResult("Error: Division by zero.")]
    ELSE LET health == IF numerator * 100 > 20 * denominator THEN "healthy"
                       ELSE IF numerator * 100 > 10 * denominator THEN "moderate"
                       ELSE "concerning"
         IN  [formula |-> "EBITDA / Revenue * 100",
              inputs |-> <<numerator, denominator>>,
              result |-> NumberResult(RoundDiv(numerator * 1000, denominator) * 10, "%"),
              assessment |-> health]

\* A leverage that divides without looking at ebitda.
CalculateLeverageUnguarded(net_debt, ebitda) ==
    IF ebitda = 0 THEN Raise("ZeroDivisionError", <<"float division by zero">>)
    ELSE [formula |-> "Net Debt / EBITDA",
          inputs |-> <<net_debt, ebitda>>,
          result |-> NumberResult(Hundredths(net_debt, ebitda), "x")]

\* calculate_leverage(net_debt, ebitda)
CalculateLeverage(net_debt, ebitda) ==
    IF ebitda = 0
    THEN [formula |-> "Net Debt / EBITDA",
          result |-> ErrorResult("Error: Division by zero (EBITDA is 0).")]
    ELSE LET risk == IF net_debt * 10 < 15 * ebitda THEN "low"
                     ELSE IF net_debt * 10 < 25 * ebitda THEN "moderate"
                     ELSE IF net_debt * 10 < 35 * ebitda THEN "elevated"
                     ELSE "high"
         IN  [formula |-> "Net Debt / EBITDA",
              inputs |-> <<net_debt, ebitda>>,
              result |-> NumberResult(Hundredths(net_debt, ebitda), "x"),
              risk_level |-> risk,
              interpretation |-> <<Hundredths(net_debt, ebitda), risk>>]

\* A check that also flags a value equal to the threshold.
CheckPolicyThresholdInclusive(metric_name, value, threshold, direction) ==
    LET violated == IF direction = "above"
                    THEN value.n * threshold.d >= threshold.n * value.d
                    ELSE value.n * threshold.d <= threshold.n * value.d
    IN  [metric |-> metric_name,
         value |-> Hundredths(value.n, value.d),
         threshold |-> Hundredths(threshold.n, threshold.d),
         direction |-> direction,
         status |-> IF violated THEN "FLAG" ELSE "PASS",
         detail |-> IF violated THEN "POLICY VIOLATION" ELSE "PASS"]

\* check_policy_threshold(metric_name, value, threshold, direction); value
\* and threshold are fractions [n, d] with d > 0.
CheckPolicyThreshold(metric_name, value, threshold, direction) ==
    LET violated == IF direction = "above"
                    THEN value.n * threshold.d > threshold.n * value.d
                    ELSE value.n * threshold.d < threshold.n * value.d
    IN  [metric |-> metric_name,
         value |-> Hundredths(value.n, value.d),
         threshold |-> Hundredths(threshold.n, threshold.d),
         direction |-> direction,
         status |-> IF violated THEN "FLAG" ELSE "PASS",
         detail |-> IF violated THEN "POLICY VIOLATION" ELSE "PASS"]

---------------------------------------------------------------------------
(* skills/compliance_checker.py *)

\* POLICY_THRESHOLDS
PolicyMetrics == {"capex_yoy_pct", "leverage_ratio", "var_99_usd_m", "position_size_usd_m"}

PolicyThreshold(m) ==
    CASE m = "capex_yoy_pct" -> [n |-> 40, d |-> 1]
      [] m = "leverage_ratio" -> [n |-> 25, d |-> 10]
      [] m = "var_99_usd_m" -> [n |-> 50, d |-> 1]
      [] m = "position_size_usd_m" -> [n |-> 10, d |-> 1]

PolicyDirection(m) == "above"

RECURSIVE Findings(_)
\* Lines 59-72: one finding per metric that has a threshold, in the order
\* of the metrics; metrics is a sequence of [name, value].
Findings(metrics) ==
    IF metrics = <<>> THEN <<>>
    ELSE (IF Head(metrics).name \in PolicyMetrics
          THEN <<CheckPolicyThreshold(Head(metrics).name, Head(metrics).value,
                                      PolicyThreshold(Head(metrics).name),
                                      PolicyDirection(Head(metrics).name))>>
          ELSE <<>>)
         \o Findings(Tail(metrics))

\* run_compliance_check(metrics, ticker)
RunComplianceCheck(metrics, ticker) ==
    LET findings == Findings(metrics)
        flags == Cardinality({ i \in DOMAIN findings : findings[i].status = "FLAG" })
    IN  [ticker |-> ticker,
         overall_status |-> IF flags > 0 THEN "FLAG" ELSE "PASS",
         total_checks |-> Len(findings),
         flags |-> flags,
         passes |-> Len(findings) - flags,
         findings |-> findings,
         recommendation |-> IF flags > 0 THEN <<flags, "Escalate">>
                            ELSE <<Len(findings), "No escalation required">>]

---------------------------------------------------------------------------
(* agent.py: run_query *)

\* Settings.top_k
TopKSetting == 5

\* AgentStep(agent, action, input_summary, output_summary); the ticker an
\* action names is held apart, duration_ms is left out.
AgentStep(agent, action, ticker, input_summary, output_summary) ==
    [agent |-> agent, action |-> action, ticker |-> ticker,
     input_summary |-> input_summary, output_summary |-> output_summary]

Orchestrator == "Orchestrator"
SecAnalyst == "SEC Research Analyst"
QuantAnalyst == "Quant Analyst"
ComplianceOfficer == "Compliance Officer"
Synthesis == "Nemotron LLM (Synthesis)"

\* d.get(k, default)
Get(d, k, default) == IF k \in DOMAIN d THEN d[k] ELSE default

\* {"ticker": ticker, "calculation": name, **calc}
MathResult(ticker, name, calc) ==
    [k \in {"ticker", "calculation"} \cup DOMAIN calc |->
        IF k \in DOMAIN calc THEN calc[k]
        ELSE IF k = "ticker" THEN ticker ELSE name]

\* Line 193: the tickers and the question, joined by single spaces.
SearchQuery(ts, q) ==
    IF ts = <<>> THEN q
    ELSE JoinWords([i \in DOMAIN ts |-> TickerChars(ts[i])]) \o <<" ">> \o q

\* Lines 223-236: the calculations run for one ticker, in order.
Calculations(ticker, metrics_num) ==
    (IF "CapEx_Current" \in DOMAIN metrics_num /\ "CapEx_Prior" \in DOMAIN metrics_num
     THEN <<MathResult(ticker, "CapEx YoY Variance",
                       CalculateYoyVariance(metrics_num["CapEx_Current"],
                                            metrics_num["CapEx_Prior"]))>>
     ELSE <<>>)
    \o (IF "EBITDA_TTM" \in DOMAIN metrics_num /\ "Revenue_TTM" \in DOMAIN metrics_num
        THEN <<MathResult(ticker, "EBITDA Margin",
                          CalculateMargin(metrics_num["EBITDA_TTM"],
                                          metrics_num["Revenue_TTM"]))>>
        ELSE <<>>)
    \o (IF "NetDebt_to_EBITDA" \in DOMAIN metrics_num
        THEN <<MathResult(ticker, "Leverage Ratio",
                          CalculateLeverage(Get(metrics_num, "NetDebt_to_EBITDA", 0)
                                              * Get(metrics_num, "EBITDA_TTM", 1),
                                            Get(metrics_num, "EBITDA_TTM", 1)))>>
        ELSE <<>>)

\* Line 255 divides by CapEx_Prior.
CapexDivisionByZero(metrics_num) ==
    /\ "CapEx_Current" \in DOMAIN metrics_num
    /\ "CapEx_Prior" \in DOMAIN metrics_num
    /\ metrics_num["CapEx_Prior"] = 0

\* Lines 252-262: check_metrics, in insertion order (when line 255 divides).
CheckMetrics(metrics_num) ==
    (IF "CapEx_Current" \in DOMAIN metrics_num /\ "CapEx_Prior" \in DOMAIN metrics_num
     THEN <<[name |-> "capex_yoy_pct",
             value |-> [n |-> (metrics_num["CapEx_Current"] - metrics_num["CapEx_Prior"]) * 100,
                        d |-> metrics_num["CapEx_Prior"]]]>>
     ELSE <<>>)
    \o (IF "NetDebt_to_EBITDA" \in DOMAIN metrics_num
        THEN <<[name |-> "leverage_ratio",
                value |-> [n |-> metrics_num["NetDebt_to_EBITDA"], d |-> 1]]>>
        ELSE <<>>)
    \o (IF "VaR_99_1d" \in DOMAIN metrics_num
        THEN <<[name |-> "var_99_usd_m", value |-> [n |-> metrics_num["VaR_99_1d"], d |-> 1]]>>
        ELSE <<>>)

\* A guard that also lets a query of any type with tickers be checked.
RunsComplianceAlways(qt, ts) == ts # <<>>

\* Line 248
RunsCompliance(qt, ts) == qt \in {"compliance", "memo"} /\ ts # <<>>

\* Lines 303-310
SystemPrompt(qt) ==
    IF qt = "memo" THEN "SUMMARIZATION_PROMPT"
    ELSE IF qt = "compliance" THEN "COMPLIANCE_OFFICER_PROMPT"
    ELSE IF qt = "math" THEN "QUANT_ANALYST_PROMPT"
    ELSE "ORCHESTRATOR_PROMPT"

\* Lines 312-319: the sections of the user message.
UserMessage(res, metrics) ==
    [documents |-> [i \in DOMAIN res.citations |->
                       <<res.citations[i].doc_id, res.citations[i].score,
                         res.citations[i].text>>],
     metrics |-> metrics,
     calculations |-> [i \in DOMAIN res.math_results |->
                          <<res.math_results[i].ticker, res.math_results[i].calculation,
                            res.math_results[i].result>>],
     compliance |-> res.compliance]

\* The replies of the completion gateway: an answer, or a failure of each
\* kind the client distinguishes.
ChatReplies ==
    { [transport |-> "ok", status |-> 200,
       body |-> [choices |-> <<[message |-> [content |-> "answer"]]>>]],
      [transport |-> "error", status |-> 0, body |-> [error |-> "x"]],
      [transport |-> "ok", status |-> 500, body |-> [error |-> "x"]],
      [transport |-> "ok", status |-> 200, body |-> [error |-> "x"]],
      [transport |-> "ok", status |-> 200, body |-> [choices |-> <<>>]],
      [transport |-> "ok", status |-> 200, body |-> [choices |-> <<[index |-> 0]>>]] }

\* Step 1, lines 172-186: classify and plan.
Classify ==
    /\ pc = "classify"
    /\ query_type' = DetectQueryType(question)
    /\ tickers' = DetectTickers(question)
    /\ result' = [result EXCEPT !.trace =
                      Append(@, AgentStep(Orchestrator, "Classify & Plan", "", question,
                                          <<query_type', tickers'>>))]
    /\ pc' = "retrieve"
    /\ UNCHANGED <<question, all_metrics, all_metrics_numeric, ti, rows_left, rexc,
                   files_read, llm_request, delivered, idx_vars, qry_vars, bld_vars>>

    /\ UNCHANGED fn_vars
\* query_index(search_query, ..., records, matrix, top_k) called by run_query
\* on the gateway's reply; what it leaves in result and where run_query goes.
RetrieveQuery(search_query, recs, mat) ==
    \E reply \in FailedEmbedReplies \cup { OkEmbedReply(<<EmbeddingOf(search_query)>>) } :
       LET r == EmbedTexts(reply)
       IN  /\ top_k' = TopKSetting
           /\ \/ /\ r.exc # "none"
                 /\ pc' = "raised"
                 /\ rexc' = r
                 /\ qstate' = "raised"
                 /\ qexc' = r
                 /\ UNCHANGED <<result, qvec, out>>
              \/ /\ r.exc = "none"
                 /\ r.val = <<>>
                 \* embed_texts(...)[0] of an empty list
                 /\ pc' = "raised"
                 /\ rexc' = Raise("IndexError", <<"list index out of range">>)
                 /\ qstate' = "raised"
                 /\ qexc' = rexc'
                 /\ UNCHANGED <<result, qvec, out>>
              \/ /\ r.exc = "none"
                 /\ r.val # <<>>
                 /\ qvec' = r.val[1]
                 /\ out' \in QueryIndex(recs, mat, r.val[1], TopKSetting)
                 /\ qstate' = "returned"
                 /\ qexc' = NoExc
                 /\ result' =
                       [result EXCEPT
                          !.citations = out',
                          !.trace = Append(@,
                              AgentStep(SecAnalyst, "Document Retrieval", "", search_query,
                                        <<Len(out'),
                                          Cardinality({ out'[i].doc_id : i \in DOMAIN out' })>>))]
                 /\ pc' = IF tickers # <<>> THEN "quant" ELSE "synthesize"
                 /\ UNCHANGED rexc

\* Step 2, lines 189-209: load_index when the caller passed no records and
\* matrix, then query_index.
Retrieve ==
    /\ pc = "retrieve"
    /\ LET search_query == SearchQuery(tickers, question)
       IN  \/ /\ load_state = "no"
              /\ ~index_exists
              /\ pc' = "raised"
              /\ rexc' = Raise("FileNotFoundError", <<"Index not found">>)
              /\ UNCHANGED <<result, load_state, records, matrix, qry_vars>>
           \/ /\ load_state = "no"
              /\ index_exists
              /\ load_state' = "yes"
              /\ records' = LoadRecords(index_lines)
              /\ matrix' = LoadMatrix(index_lines)
              /\ RetrieveQuery(search_query, records', matrix')
           \/ /\ load_state = "yes"
              /\ UNCHANGED <<load_state, records, matrix>>
              /\ RetrieveQuery(search_query, records, matrix)
    /\ UNCHANGED <<question, query_type, tickers, all_metrics, all_metrics_numeric, ti,
                   rows_left, files_read, llm_request, delivered, index_exists, index_lines,
                   bld_vars>>

    /\ UNCHANGED fn_vars
\* Step 3, lines 215-245: one turn of the loop over tickers; the metrics
\* file of the ticker is read as it is at that time.
Quant ==
    /\ pc = "quant"
    /\ \E file \in MetricFiles(rows_left) :
          LET ticker == tickers[ti]
              metrics == LoadMetrics(file)
              metrics_num == LoadMetricsNumeric(file)
              math == result.math_results \o Calculations(ticker, metrics_num)
          IN  /\ all_metrics' = DictPut(all_metrics, ticker, metrics)
              /\ all_metrics_numeric' = DictPut(all_metrics_numeric, ticker, metrics_num)
              /\ result' =
                    [result EXCEPT
                       !.math_results = math,
                       !.trace = IF DOMAIN metrics # {}
                                 THEN Append(@, AgentStep(QuantAnalyst,
                                                          "Load Metrics + Calculate", ticker,
                                                          ticker,
                                                          <<Cardinality(DOMAIN metrics),
                                                            Len(math)>>))
                                 ELSE @]
              /\ files_read' = DictPut(files_read, ticker,
                                        [exists |-> file.exists,
                                         header |-> \E r \in DOMAIN file.sheet :
                                                       file.sheet[r].kind = "header"])
              /\ rows_left' = rows_left - Len(file.sheet)
    /\ IF ti < Len(tickers)
       THEN ti' = ti + 1 /\ pc' = "quant"
       ELSE ti' = 1 /\ pc' = IF RunsCompliance(query_type, tickers) THEN "compliance"
                             ELSE "synthesize"
    /\ UNCHANGED <<question, query_type, tickers, rexc, llm_request, delivered,
                   idx_vars, qry_vars, bld_vars>>

    /\ UNCHANGED fn_vars
\* An assignment that keeps the first ticker's result.
KeepFirstCompliance(old, new) == IF old = <<>> THEN <<new>> ELSE old

\* Line 266: result.compliance = compliance_result
SetCompliance(old, new) == <<new>>

\* Step 4, lines 249-273: one turn of the loop over tickers.
Compliance ==
    /\ pc = "compliance"
    /\ LET ticker == tickers[ti]
           metrics_num == Get(all_metrics_numeric, ticker, EmptyDict)
       IN  \/ /\ CapexDivisionByZero(metrics_num)
              /\ pc' = "raised"
              /\ rexc' = Raise("ZeroDivisionError", <<"float division by zero">>)
              /\ UNCHANGED <<result, ti>>
           \/ /\ ~CapexDivisionByZero(metrics_num)
              /\ LET check_metrics == CheckMetrics(metrics_num)
                     compliance_result == RunComplianceCheck(check_metrics, ticker)
                 IN  result' =
                        IF check_metrics # <<>>
                        THEN [result EXCEPT
                                !.compliance = SetCompliance(@, compliance_result),
                                !.trace = Append(@,
                                    AgentStep(ComplianceOfficer, "Policy Threshold Check",
                                              ticker, Len(check_metrics),
                                              <<compliance_result.overall_status,
                                                compliance_result.flags>>))]
                        ELSE result
              /\ IF ti < Len(tickers)
                 THEN ti' = ti + 1 /\ pc' = "compliance"
                 ELSE ti' = 1 /\ pc' = "synthesize"
              /\ UNCHANGED rexc
    /\ UNCHANGED <<question, query_type, tickers, all_metrics, all_metrics_numeric,
                   rows_left, files_read, llm_request, delivered, idx_vars, qry_vars,
                   bld_vars>>

    /\ UNCHANGED fn_vars
\* Step 5, lines 276-342: the completion call, then the return.
Synthesize ==
    /\ pc = "synthesize"
    /\ llm_request' = <<[system |-> SystemPrompt(query_type),
                         user |-> UserMessage(result, all_metrics)]>>
    /\ \E reply \in ChatReplies :
          LET r == ChatCompletion(reply)
          IN  \/ /\ r.exc # "none"
                 /\ pc' = "raised"
                 /\ rexc' = r
                 /\ UNCHANGED <<result, delivered>>
              \/ /\ r.exc = "none"
                 /\ result' =
                       [result EXCEPT
                          !.answer = r.val,
                          !.trace = Append(@,
                              AgentStep(Synthesis, "Generate Response with Citations", "",
                                        <<Len(result.citations),
                                          Cardinality(DOMAIN all_metrics)>>,
                                        "Generated"))]
                 /\ delivered' = <<result'>>
                 /\ pc' = "returned"
                 /\ UNCHANGED rexc
    /\ UNCHANGED <<question, query_type, tickers, all_metrics, all_metrics_numeric, ti,
                   rows_left, files_read, idx_vars, qry_vars, bld_vars>>

    /\ UNCHANGED fn_vars
\* The index the queries run on: the three chunks of the spec's scenario.
ServedIndex == JsonLines([i \in 1..3 |-> IndexRecord(i, ScenarioIndex[i])])

Init ==
    /\ question \in Questions
    /\ pc = "classify"
    /\ query_type = ""
    /\ tickers = <<>>
    /\ result = NewAgentResult
    /\ all_metrics = EmptyDict
    /\ all_metrics_numeric = EmptyDict
    /\ ti = 1
    /\ rows_left = MaxSheetRows
    /\ rexc = NoExc
    /\ files_read = EmptyDict
    /\ llm_request = <<>>
    /\ delivered = <<>>
    /\ index_exists \in BOOLEAN
    /\ index_lines = IF index_exists THEN ServedIndex ELSE <<>>
    \* "yes": the caller passes the records and matrix it has loaded before
    /\ load_state \in {"no", "yes"}
    /\ records = IF load_state = "yes" THEN LoadRecords(ServedIndex) ELSE <<>>
    /\ matrix = IF load_state = "yes" THEN LoadMatrix(ServedIndex) ELSE <<>>
    /\ QryIdle
    /\ BldIdle
    /\ NoStore

    /\ FnIdle
Next == Classify \/ Retrieve \/ Quant \/ Compliance \/ Synthesize

Spec == Init /\ [][Next]_vars

---------------------------------------------------------------------------
(* Calls of the functions of nim_client.py and skills/ on their own *)

\* Nothing but the one function call is in play.
OnlyCalls ==
    /\ index_exists = FALSE
    /\ index_lines = <<>>
    /\ load_state = "no"
    /\ records = <<>>
    /\ matrix = <<>>
    /\ QryIdle
    /\ BldIdle
    /\ NoStore
    /\ RqIdle

\* The HTTP statuses a gateway answers with.
Statuses == {200, 204, 399, 400, 404, 500, 503}

\* The JSON objects a gateway answers with.
EmbedBodies ==
    { [error |-> "x"],
      [data |-> <<>>],
      [data |-> <<[embedding |-> <<10, 0>>]>>],
      [data |-> <<[embedding |-> <<10, 0>>], [embedding |-> <<0, 10>>]>>],
      [data |-> <<[object |-> "x"]>>],
      [data |-> <<[embedding |-> <<10, 0>>], [object |-> "x"]>>] }

ChatBodies ==
    { [error |-> "x"],
      [choices |-> <<>>],
      [choices |-> <<[message |-> [content |-> "answer"]]>>],
      [choices |-> <<[message |-> [content |-> "answer"]], [index |-> 1]>>],
      [choices |-> <<[index |-> 0]>>],
      [choices |-> <<[message |-> [role |-> "assistant"]]>>] }

GatewayReplies(bodies) ==
    { [transport |-> t, status |-> st, body |-> b] :
        t \in {"ok", "error"}, st \in Statuses, b \in bodies }

\* embed_texts(embed_base_url, model, texts) on the gateway's reply
EmbedTextsCall ==
    /\ fn = "embed_texts"
    /\ ret = <<>>
    /\ ret' = <<EmbedTexts(args[1])>>
    /\ UNCHANGED <<fn, args, frame, idx_vars, qry_vars, bld_vars, rq_vars>>

\* chat_completion(llm_base_url, model, messages) on the gateway's reply
ChatCompletionCall ==
    /\ fn = "chat_completion"
    /\ ret = <<>>
    /\ ret' = <<ChatCompletion(args[1])>>
    /\ UNCHANGED <<fn, args, frame, idx_vars, qry_vars, bld_vars, rq_vars>>

InitGateway ==
    /\ \/ fn = "embed_texts" /\ args \in { <<r>> : r \in GatewayReplies(EmbedBodies) }
       \/ fn = "chat_completion" /\ args \in { <<r>> : r \in GatewayReplies(ChatBodies) }
    /\ ret = <<>>
    /\ frame = <<>>
    /\ OnlyCalls

NextGateway == EmbedTextsCall \/ ChatCompletionCall

SpecGateway == InitGateway /\ [][NextGateway]_vars

\* The largest amount, in absolute value, given to a calculator.
MaxAmount == 5

Amounts == (-MaxAmount)..MaxAmount

\* The values and thresholds given to check_policy_threshold: n / d with d
\* 1 or 10, and the 2.8 and 2.5 of the leverage scenario.
Fractions ==
    { [n |-> n, d |-> d] : n \in Amounts, d \in {1, 10} }
    \cup { [n |-> 28, d |-> 10], [n |-> 25, d |-> 10] }

Directions == {"above", "below"}

CalculateYoyVarianceCall ==
    /\ fn = "calculate_yoy_variance"
    /\ ret = <<>>
    /\ ret' = <<CalculateYoyVariance(args[1], args[2])>>
    /\ UNCHANGED <<fn, args, frame, idx_vars, qry_vars, bld_vars, rq_vars>>

CalculateMarginCall ==
    /\ fn = "calculate_margin"
    /\ ret = <<>>
    /\ ret' = <<CalculateMargin(args[1], args[2])>>
    /\ UNCHANGED <<fn, args, frame, idx_vars, qry_vars, bld_vars, rq_vars>>

CalculateLeverageCall ==
    /\ fn = "calculate_leverage"
    /\ ret = <<>>
    /\ ret' = <<CalculateLeverage(args[1], args[2])>>
    /\ UNCHANGED <<fn, args, frame, idx_vars, qry_vars, bld_vars, rq_vars>>

CheckPolicyThresholdCall ==
    /\ fn = "check_policy_threshold"
    /\ ret = <<>>
    /\ ret' = <<CheckPolicyThreshold(args[1], args[2], args[3], args[4])>>
    /\ UNCHANGED <<fn, args, frame, idx_vars, qry_vars, bld_vars, rq_vars>>

\* The most metrics given to run_compliance_check.
MaxMetrics == 2

\* The metrics dictionaries given to run_compliance_check: up to MaxMetrics
\* distinct names in insertion order. The names are those with a threshold
\* and one, ebitda_margin, that has none; the values lie below, on and above
\* the leverage threshold, and above every threshold.
MetricDicts ==
    LET names == PolicyMetrics \cup {"ebitda_margin"}
        values == { [n |-> 0, d |-> 1], [n |-> 25, d |-> 10], [n |-> 3, d |-> 1],
                    [n |-> 60, d |-> 1] }
    IN  UNION { { m \in [1..n -> [name : names, value : values]] :
                    \A i, j \in 1..n : m[i].name = m[j].name => i = j } :
                n \in 0..MaxMetrics }

RunComplianceCheckCall ==
    /\ fn = "run_compliance_check"
    /\ ret = <<>>
    /\ ret' = <<RunComplianceCheck(args[1], args[2])>>
    /\ UNCHANGED <<fn, args, frame, idx_vars, qry_vars, bld_vars, rq_vars>>

Calculators == {"calculate_yoy_variance", "calculate_margin", "calculate_leverage"}

InitSkills ==
    /\ \/ fn \in Calculators /\ args \in Amounts \X Amounts
       \/ /\ fn = "check_policy_threshold"
          /\ args \in {"leverage_ratio"} \X Fractions \X Fractions \X Directions
       \/ /\ fn = "run_compliance_check"
          /\ args \in MetricDicts \X {"ALPH"}
    /\ ret = <<>>
    /\ frame = <<>>
    /\ OnlyCalls

NextSkills ==
    \/ CalculateYoyVarianceCall
    \/ CalculateMarginCall
    \/ CalculateLeverageCall
    \/ CheckPolicyThresholdCall
    \/ RunComplianceCheckCall

SpecSkills == InitSkills /\ [][NextSkills]_vars

---------------------------------------------------------------------------
(* Calls of detect_query_type and detect_tickers on their own *)

\* The most words a query text is made of.
MaxWords == 2

\* The query texts: up to MaxWords words joined by single spaces. The words
\* hold keywords of every query type in either case, one keyword inside a
\* longer word (the vs of canvas), the two halves of a keyword that has a
\* space in it, and tickers in either case, alone, next to punctuation and
\* inside longer words.
QueryTexts ==
    LET words == { <<"M", "e", "m", "o">>,
                   <<"i", "n", "v", "e", "s", "t", "m", "e", "n", "t">>,
                   <<"b", "r", "i", "e", "f">>,
                   <<"A", "u", "d", "i", "t">>,
                   <<"c", "a", "n", "v", "a", "s">>,
                   <<"r", "a", "t", "i", "o">>,
                   <<"A", "L", "P", "H">>,
                   <<"b", "e", "t", "a", ",">>,
                   <<"A", "L", "P", "H", "A", "B", "E", "T">>,
                   <<"g", "a", "m", "m", "2">>,
                   <<"x", "_", "B", "E", "T", "A">>,
                   <<"G", "a", "m", "m">> }
    IN  { JoinWords(ws) : ws \in UNION { [1..n -> words] : n \in 0..MaxWords } }

DetectQueryTypeCall ==
    /\ fn = "detect_query_type"
    /\ ret = <<>>
    /\ ret' = <<DetectQueryType(args[1])>>
    /\ UNCHANGED <<fn, args, frame, idx_vars, qry_vars, bld_vars, rq_vars>>

DetectTickersCall ==
    /\ fn = "detect_tickers"
    /\ ret = <<>>
    /\ ret' = <<DetectTickers(args[1])>>
    /\ UNCHANGED <<fn, args, frame, idx_vars, qry_vars, bld_vars, rq_vars>>

InitDetect ==
    /\ fn \in {"detect_query_type", "detect_tickers"}
    /\ args \in { <<t>> : t \in QueryTexts }
    /\ ret = <<>>
    /\ frame = <<>>
    /\ OnlyCalls

NextDetect == DetectQueryTypeCall \/ DetectTickersCall

SpecDetect == InitDetect /\ [][NextDetect]_vars

---------------------------------------------------------------------------
(* A call of _chunk_text on its own, one loop iteration at a time.  frame  *)
(* is <<>> before line 61 and then holds the locals: the normalized text,  *)
(* the offset i and the chunks appended so far.                            *)

\* The longest text, the widest window and the largest overlap given to
\* _chunk_text.
MaxTextLen == 4
MaxWindow == 3
MaxOverlap == 3

\* The arguments of _chunk_text: texts of letters and blanks, a window of at
\* least one character, an overlap below, at and above the window.
ChunkArgs ==
    (UNION { [1..n -> {"a", "b", " "}] : n \in 0..MaxTextLen })
        \X (1..MaxWindow) \X (0..MaxOverlap)

\* Lines 61-65: normalize; return [] for an empty text, else enter the loop.
ChunkTextStart ==
    /\ fn = "_chunk_text"
    /\ frame = <<>>
    /\ ret = <<>>
    /\ LET text == NormalizeWhitespace(args[1])
       IN  /\ frame' = <<[text |-> text, i |-> 0, chunks |-> <<>>]>>
           /\ ret' = IF text = <<>> THEN << <<>> >> ELSE <<>>
    /\ UNCHANGED <<fn, args, idx_vars, qry_vars, bld_vars, rq_vars>>

\* Lines 66-72: one iteration of the loop and the test that follows it.
ChunkTextStep ==
    /\ fn = "_chunk_text"
    /\ frame # <<>>
    /\ ret = <<>>
    /\ LET text == frame[1].text
           i == frame[1].i
           chunk == SubSeq(text, i + 1, Min(i + args[2], Len(text)))
           appended == Append(frame[1].chunks, chunk)
           next == i + Stride(args[2], args[3])
       IN  IF i + args[2] >= Len(text)
           THEN /\ frame' = <<[frame[1] EXCEPT !.chunks = appended]>>
                /\ ret' = <<appended>>
           ELSE /\ frame' = <<[frame[1] EXCEPT !.chunks = appended, !.i = next]>>
                /\ ret' = IF next < Len(text) THEN <<>> ELSE <<appended>>
    /\ UNCHANGED <<fn, args, idx_vars, qry_vars, bld_vars, rq_vars>>

InitChunk ==
    /\ fn = "_chunk_text"
    /\ args \in ChunkArgs
    /\ ret = <<>>
    /\ frame = <<>>
    /\ OnlyCalls

NextChunk == ChunkTextStart \/ ChunkTextStep

\* The interpreter keeps running the call until it returns.
SpecChunk == InitChunk /\ [][NextChunk]_vars /\ WF_vars(NextChunk)

---------------------------------------------------------------------------
(* Concurrent run_query calls that were handed the same records and        *)
(* matrix (ui.py loads them once): each caller runs query_index one line   *)
(* at a time.  frame[c] holds caller c's locals: the line it is at, q,     *)
(* scores, the idxs not yet visited, out, and the calls it has finished.   *)

Callers == {"c1", "c2"}

\* The most query_index calls one caller makes.
MaxQueries == 2

\* A hit built on the record itself: "embedding" is popped from the shared dict.
AfterHitInPlace(recs, i) ==
    [recs EXCEPT ![i] = [f \in DOMAIN recs[i] \ {"embedding"} |-> recs[i][f]]]

\* query_index, lines 201-203: the hit is built on dict(records[i]), a new
\* dict; the list and the dicts in it are as they were.
AfterHit(recs, i) == recs

\* query_index, lines 192-194: embed the query; a failed request ends the call.
QueryEmbed(c) ==
    /\ frame[c].pc = "embed"
    /\ frame[c].calls < MaxQueries
    /\ \E reply \in FailedEmbedReplies \cup { OkEmbedReply(<<v>>) : v \in EmbedVectors } :
          LET r == EmbedTexts(reply)
          IN  IF r.exc # "none" \/ r.val = <<>>
              THEN frame' = [frame EXCEPT ![c].calls = @ + 1, ![c].out = <<>>]
              ELSE frame' = [frame EXCEPT ![c].pc = "score", ![c].q = r.val[1],
                                          ![c].out = <<>>]
    /\ UNCHANGED <<fn, args, ret, idx_vars, qry_vars, bld_vars, rq_vars>>

\* query_index, lines 196-197: scores and idxs are new arrays.
QueryScore(c) ==
    /\ frame[c].pc = "score"
    /\ LET scores == Scores(matrix, frame[c].q)
       IN  \E idxs \in Argsort([i \in DOMAIN scores |-> -scores[i]]) :
              frame' = [frame EXCEPT ![c].pc = "copy", ![c].scores = scores,
                                     ![c].idxs = Take(idxs, TopKSetting)]
    /\ UNCHANGED <<fn, args, ret, idx_vars, qry_vars, bld_vars, rq_vars>>

\* query_index, lines 200-205: one iteration of the loop, or the return.
QueryCopy(c) ==
    /\ frame[c].pc = "copy"
    /\ IF frame[c].idxs = <<>>
       THEN /\ frame' = [frame EXCEPT ![c].pc = "embed", ![c].calls = @ + 1]
            /\ UNCHANGED records
       ELSE LET i == Head(frame[c].idxs)
            IN  /\ frame' = [frame EXCEPT
                                ![c].out = Append(@, Hit(records[i], frame[c].scores[i])),
                                ![c].idxs = Tail(@)]
                /\ records' = AfterHit(records, i)
    /\ UNCHANGED <<fn, args, ret, index_exists, index_lines, load_state, matrix,
                   qry_vars, bld_vars, rq_vars>>

\* The state right after load_index, before any caller's first query.
InitShared ==
    /\ index_exists = TRUE
    /\ index_lines = ServedIndex
    /\ load_state = "yes"
    /\ records = LoadRecords(index_lines)
    /\ matrix = LoadMatrix(index_lines)
    /\ fn = "query_index"
    /\ args = <<>>
    /\ ret = <<>>
    /\ frame = [c \in Callers |->
                  [pc |-> "embed", q |-> <<>>, scores |-> <<>>, idxs |-> <<>>,
                   out |-> <<>>, calls |-> 0]]
    /\ QryIdle
    /\ BldIdle
    /\ NoStore
    /\ RqIdle

NextShared == \E c \in Callers : QueryEmbed(c) \/ QueryScore(c) \/ QueryCopy(c)

SpecShared == InitShared /\ [][NextShared]_vars

---------------------------------------------------------------------------
(* Claims about run_query, checked under Spec *)

Range(f) == { f[x] : x \in DOMAIN f }

IsPrefix(a, b) == Len(a) <= Len(b) /\ SubSeq(b, 1, Len(a)) = a

\* The positions of the steps an agent appended.
StepsOf(trace, agent) == { i \in DOMAIN trace : trace[i].agent = agent }

\* The orchestration state a step belongs to.
Phase(step) ==
    CASE step.agent = Orchestrator -> 1
      [] step.agent = SecAnalyst -> 2
      [] step.agent = QuantAnalyst -> 3
      [] step.agent = ComplianceOfficer -> 4
      [] step.agent = Synthesis -> 5

RegistryPosition(t) == CHOOSE i \in DOMAIN TICKERS : TICKERS[i] = t

TraceShape(trace, ts) ==
    /\ Len(trace) >= 3
    /\ StepsOf(trace, Orchestrator) = {1}
    /\ StepsOf(trace, SecAnalyst) = {2}
    /\ StepsOf(trace, Synthesis) = {Len(trace)}
    /\ \A i, j \in DOMAIN trace : i < j => Phase(trace[i]) <= Phase(trace[j])
    /\ \A i \in StepsOf(trace, QuantAnalyst) : trace[i].ticker \in Range(ts)
    /\ \A i, j \in StepsOf(trace, QuantAnalyst) :
          i < j => RegistryPosition(trace[i].ticker) < RegistryPosition(trace[j].ticker)

\* C1: every step of run_query only appends to the trace, and the trace of a
\* call that returns is one Classify step, one Retrieve step, then Quant
\* steps (at most one per detected ticker, in registry order), then
\* Compliance steps, then one Synthesize step, with nothing after it.
C1_TraceShape ==
    [][/\ IsPrefix(result.trace, result'.trace)
       /\ delivered' # <<>> => TraceShape(delivered'[1].trace, tickers')]_vars

C1_Witness ==
    /\ delivered # <<>>
    /\ Cardinality(StepsOf(delivered[1].trace, QuantAnalyst)) = 2
    /\ StepsOf(delivered[1].trace, ComplianceOfficer) # {}

\* The call ended by an exception of a gateway call.
GatewayFailed == pc = "raised" /\ (qstate = "raised" \/ llm_request # <<>>)

\* The names of the orchestration step whose gateway call failed.
FailedStepNames ==
    IF llm_request # <<>> THEN {"Synthesize", Synthesis}
    ELSE {"Retrieve", SecAnalyst}

\* C2: when the embedding call of Retrieve or the completion call of
\* Synthesize fails, the caller receives no AgentResult, the call ends in a
\* failure, and the failure names the orchestration step that failed.
C2_FailureNamesStep ==
    GatewayFailed =>
        /\ delivered = <<>>
        /\ rexc.exc # "none"
        /\ \E i \in DOMAIN rexc.message : rexc.message[i] \in FailedStepNames

\* A metric set one of whose calculations divides by zero.
ZeroDivisor(metrics_num) ==
    \/ CapexDivisionByZero(metrics_num)
    \/ /\ "NetDebt_to_EBITDA" \in DOMAIN metrics_num
       /\ Get(metrics_num, "EBITDA_TTM", 1) = 0
    \/ /\ "EBITDA_TTM" \in DOMAIN metrics_num
       /\ Get(metrics_num, "Revenue_TTM", 1) = 0

\* C3: no division by zero raises out of run_query, whatever the query type
\* and the loaded metrics (CapEx_Prior = 0, EBITDA_TTM = 0): the call goes
\* on to Synthesize, and the result it returns holds the zero-divisor case
\* as a structured error value.
C3_DivisionByZeroNeverRaises ==
    /\ rexc.exc # "ZeroDivisionError"
    /\ delivered # <<>> =>
          \A t \in DOMAIN all_metrics_numeric :
             ZeroDivisor(all_metrics_numeric[t]) =>
                \E i \in DOMAIN delivered[1].math_results :
                   /\ delivered[1].math_results[i].ticker = t
                   /\ delivered[1].math_results[i].result.error

\* The tickers whose check_metrics is non-empty.
Checkable ==
    { t \in DOMAIN all_metrics_numeric : CheckMetrics(all_metrics_numeric[t]) # <<>> }

\* C4: a Compliance step is in the trace and result.compliance is set only
\* when the query type is compliance or memo, a ticker was detected and the
\* check metrics of the step's ticker are non-empty; the value set is the
\* policy engine's on those check metrics; every other call that returns
\* has no Compliance step and leaves result.compliance None.
C4_ComplianceOnlyWhenDue ==
    LET steps == StepsOf(result.trace, ComplianceOfficer)
        last == CHOOSE i \in steps : \A j \in steps : j <= i
    IN  /\ (result.compliance # <<>>) <=> (steps # {})
        /\ steps # {} =>
              /\ query_type \in {"compliance", "memo"}
              /\ tickers # <<>>
              /\ \A i \in steps : /\ result.trace[i].ticker \in Range(tickers)
                                  /\ result.trace[i].ticker \in Checkable
              /\ result.compliance[1] =
                    RunComplianceCheck(
                        CheckMetrics(all_metrics_numeric[result.trace[last].ticker]),
                        result.trace[last].ticker)
        /\ (/\ delivered # <<>>
            /\ ~(query_type \in {"compliance", "memo"} /\ tickers # <<>> /\ Checkable # {}))
              => /\ StepsOf(delivered[1].trace, ComplianceOfficer) = {}
                 /\ delivered[1].compliance = <<>>

C4_Witness ==
    /\ delivered # <<>>
    /\ delivered[1].compliance # <<>>
    /\ delivered[1].compliance[1].overall_status = "FLAG"
    /\ \E t \in DOMAIN all_metrics_numeric : t \notin Checkable

\* C5: the Quant state runs once for every detected ticker; the trace has a
\* Quant step for a ticker exactly when the metrics load_metrics returned
\* for it are non-empty, and never two; a ticker whose file is absent or has
\* no header row has no Quant step and no calculation result.
C5_QuantStepIffMetrics ==
    /\ \A i \in StepsOf(result.trace, QuantAnalyst) :
          result.trace[i].ticker \in DOMAIN all_metrics
    /\ \A t \in DOMAIN all_metrics :
          LET steps == { i \in StepsOf(result.trace, QuantAnalyst) :
                            result.trace[i].ticker = t }
          IN  /\ Cardinality(steps) <= 1
              /\ (steps # {}) <=> (DOMAIN all_metrics[t] # {})
              /\ (~files_read[t].exists \/ ~files_read[t].header) =>
                    /\ steps = {}
                    /\ \A i \in DOMAIN result.math_results :
                          result.math_results[i].ticker # t
    /\ pc \in {"compliance", "synthesize", "returned"} =>
          DOMAIN all_metrics = Range(tickers)

C5_Witness ==
    /\ delivered # <<>>
    /\ \E t, u \in DOMAIN all_metrics :
          /\ StepsOf(delivered[1].trace, QuantAnalyst) # {}
          /\ DOMAIN all_metrics[t] # {}
          /\ DOMAIN all_metrics_numeric[t] = {}
          /\ files_read[u].exists
          /\ ~files_read[u].header

\* The hits made from the records: none has "embedding", each has the other
\* fields of one record, with that record's values, and a score.
Projected(hits, recs) ==
    \A i \in DOMAIN hits :
       /\ "embedding" \notin DOMAIN hits[i]
       /\ "score" \in DOMAIN hits[i]
       /\ \E n \in DOMAIN recs :
             /\ DOMAIN hits[i] = (DOMAIN recs[n] \ {"embedding"}) \cup {"score"}
             /\ \A f \in DOMAIN recs[n] \ {"embedding"} : hits[i][f] = recs[n][f]

\* C9: no record query_index returns, and so no citation of the result,
\* holds an embedding; each holds the other fields of its source record and
\* a score.
C9_NoEmbeddingInHits ==
    /\ Projected(out, records)
    /\ Projected(result.citations, records)
    /\ delivered # <<>> => Projected(delivered[1].citations, records)

C9_Witness ==
    /\ delivered # <<>>
    /\ Len(delivered[1].citations) = 3
    /\ \A n \in DOMAIN records : "embedding" \in DOMAIN records[n]

---------------------------------------------------------------------------
(* Claims about query_index, checked under SpecIndex *)

\* The position in the index of the record a hit was made from.
PositionOf(hit) == hit.text[2]

InScenario ==
    /\ qstate = "returned"
    /\ [i \in DOMAIN records |-> records[i].embedding] = ScenarioIndex
    /\ qvec = <<10, 0>>
    /\ top_k = 2

\* C6: query_index returns its records sorted by score, highest first, every
\* score lies in [-1, 1], and in the 3-chunk scenario the result is chunk 0
\* then chunk 2.
C6_SortedBoundedScores ==
    qstate = "returned" =>
        /\ \A n \in DOMAIN out :
              n + 1 \in DOMAIN out => out[n].score >= out[n + 1].score
        /\ \A n \in DOMAIN out : -Unit <= out[n].score /\ out[n].score <= Unit
        /\ InScenario => Len(out) = 2 /\ PositionOf(out[1]) = 1 /\ PositionOf(out[2]) = 3

\* C7: query_index returns exactly min(top_k, N) records, no record twice,
\* and raises for no top_k: what it raises comes from the embedding call.
C7_TopKClamp ==
    /\ qstate = "returned" =>
          /\ Len(out) = Min(top_k, Len(records))
          /\ \A m, n \in DOMAIN out : m # n => PositionOf(out[m]) # PositionOf(out[n])
    /\ qstate = "raised" => qexc.message # <<>> /\ out = <<>>

C7_Witness ==
    /\ qstate = "returned"
    /\ Len(records) >= 2
    /\ top_k > Len(records)
    /\ Len(out) = Len(records)

\* C8: records with equal score are returned in their original record order.
C8_TiesInRecordOrder ==
    qstate = "returned" =>
        \A m, n \in DOMAIN out :
            (m < n /\ out[m].score = out[n].score) => PositionOf(out[m]) < PositionOf(out[n])

---------------------------------------------------------------------------
(* Claims about build_index, checked under SpecBuild *)

\* C10: a build_index call that finds index.jsonl at the target returns at
\* once: it sends no embedding request, opens no document and leaves
\* index.jsonl and manifest.json as they are; so, from the moment the index
\* exists, no later call changes anything.
C10_BuildIsNoOpOnExistingIndex ==
    [][index_exists =>
          /\ index_exists'
          /\ index_lines' = index_lines
          /\ manifest_exists' = manifest_exists
          /\ manifest' = manifest
          /\ embed_calls' = embed_calls
          /\ docs_read' = docs_read
          /\ (build_calls' # build_calls => bstate' = "done")]_vars

\* The second call returned at once on the index the first call wrote.
C10_Witness ==
    /\ build_calls = 2
    /\ bstate = "done"
    /\ chunks = <<>>
    /\ index_exists
    /\ index_lines # FormerIndex
    /\ Len(index_lines) >= 2
    /\ embed_calls >= 2

RECURSIVE ChunksOfReadable(_, _)
\* The chunks of the readable files among fs, in order.
ChunksOfReadable(fs, p) ==
    IF fs = <<>> THEN <<>>
    ELSE (IF Head(fs).readable
          THEN ChunksOfFile(Head(fs), p.chunk_chars, p.chunk_overlap)
          ELSE <<>>)
         \o ChunksOfReadable(Tail(fs), p)

\* C11: a document whose text cannot be extracted does not end build_index
\* in a failure: the build goes on, and the chunks it embeds and writes are
\* those of every other document.
C11_ExtractionFailureSkipsDocument ==
    /\ ~(bstate = "raised" /\ bexc.exc = "ExtractionError")
    /\ bstate \in {"embed", "write"} =>
          chunks = ChunksOfReadable(IterFiles(documents), params)

\* The last build_index call wrote index.jsonl and manifest.json.
Built == bstate = "done" /\ chunks # <<>>

\* C12: the i-th record written holds the i-th chunk with the embedding of
\* that chunk's text, whatever the batch size; the documents come in sorted
\* path order, and in each document chunk_id counts 0, 1, 2, ...
C12_RecordsInInputOrder ==
    Built =>
        LET recs == [i \in DOMAIN index_lines |-> JsonLoads(index_lines[i])]
        IN  /\ Len(recs) = Len(chunks)
            /\ \A i \in DOMAIN recs :
                  /\ recs[i].doc_id = chunks[i].doc_id
                  /\ recs[i].source_path = chunks[i].source_path
                  /\ recs[i].text = chunks[i].text
                  /\ recs[i].embedding = EmbeddingOf(chunks[i].text)
                  /\ recs[i].chunk_id =
                        IF i > 1 /\ recs[i - 1].source_path = recs[i].source_path
                        THEN recs[i - 1].chunk_id + 1
                        ELSE 0
                  /\ i > 1 => recs[i - 1].source_path <= recs[i].source_path

\* C13: after a build that wrote the index, the manifest's num_chunks is the
\* number of records of index.jsonl and its num_documents the number of
\* distinct doc_id among them, whatever the gateway replied.
C13_ManifestCountsRecords ==
    Built =>
        LET recs == [i \in DOMAIN index_lines |-> JsonLoads(index_lines[i])]
        IN  /\ manifest_exists
            /\ manifest.num_chunks = Len(recs)
            /\ manifest.num_documents =
                  Cardinality({ recs[i].doc_id : i \in DOMAIN recs })

\* A failure a later attempt could have cured: the request did not get
\* through, or the gateway answered with an error status.
TransientFailure(e) ==
    \/ e.exc = "RequestException"
    \/ e.exc = "NIMError" /\ e.message[1] = "HTTP status from"

\* C16: a gateway call of the index builder that fails is tried again, a
\* bounded number of times, before build_index gives up, and what it then
\* raises is the typed gateway failure: no call gives up after one
\* transient failure.
C16_GatewayCallsAreRetried ==
    [][(bstate = "embed" /\ bstate' = "raised" /\ TransientFailure(bexc')) =>
          /\ embed_calls' >= embed_calls + 2
          /\ bexc'.exc = "NIMError"]_vars

---------------------------------------------------------------------------
(* Claims about build_index followed by load_index, checked under          *)
(* SpecBuildLoad                                                           *)

\* C14: load_index, called on the index.jsonl a build_index call wrote,
\* returns one record per chunk, in the order written, with the doc_id,
\* chunk_id, source_path, text and embedding that were written, and a
\* matrix whose row i is the normalized embedding of record i.
C14_IndexRoundTrips ==
    [][(load_state = "no" /\ load_state' # "no" /\ Built) =>
          /\ load_state' = "yes"
          /\ Len(records') = Len(chunks)
          /\ records' = Zip(chunks, embeddings)
          /\ DOMAIN matrix' = DOMAIN records'
          /\ \A i \in DOMAIN records' :
                matrix'[i] = Normalize([j \in DOMAIN records'[i].embedding |->
                                           ToFloat32(records'[i].embedding[j])])]_vars

---------------------------------------------------------------------------
(* More claims about run_query, checked under Spec *)

\* C15: a missing index and a missing metrics file each reach the caller
\* as a not-found failure, apart from an empty outcome: run_query on a
\* missing index raises and loads no empty index, and a ticker whose
\* metrics file is missing ends the call in a not-found failure, unlike a
\* file that is there and yields no metrics.
C15_AbsentFilesAreNotFound ==
    /\ (~index_exists /\ load_state = "no" /\ pc \notin {"classify", "retrieve"}) =>
          /\ pc = "raised"
          /\ rexc.exc = "FileNotFoundError"
          /\ records = <<>>
    /\ \A t \in DOMAIN files_read :
          ~files_read[t].exists =>
             /\ pc = "raised"
             /\ rexc.exc = "FileNotFoundError"

---------------------------------------------------------------------------
(* Claims about the gateway client, checked under SpecGateway *)

\* A reply that got through and is not what the function needs.
Malformed(f, reply) ==
    \/ reply.status >= 400
    \/ /\ f = "embed_texts"
       /\ \/ "data" \notin DOMAIN reply.body
          \/ \E i \in DOMAIN reply.body.data : "embedding" \notin DOMAIN reply.body.data[i]
    \/ /\ f = "chat_completion"
       /\ \/ "choices" \notin DOMAIN reply.body
          \/ reply.body.choices = <<>>
          \/ "message" \notin DOMAIN reply.body.choices[1]
          \/ "content" \notin DOMAIN reply.body.choices[1].message

\* C17: every malformed reply (a status >= 400; for embed_texts no 'data'
\* or an item without 'embedding'; for chat_completion no 'choices', empty
\* 'choices', no 'message' or no 'content') ends in NIMError: no other
\* exception type, no returned value.
C17_MalformedReplyIsNIMError ==
    (fn \in {"embed_texts", "chat_completion"} /\ ret # <<>>
        /\ args[1].transport = "ok" /\ Malformed(fn, args[1]))
    => ret[1].exc = "NIMError"

---------------------------------------------------------------------------
(* Claims about the calculators, checked under SpecSkills *)

\* C18: each calculator called with a zero divisor returns a result whose
\* 'result' is an error string that says division by zero; no call of the
\* three raises.
C18_ZeroDivisorIsErrorResult ==
    (fn \in Calculators /\ ret # <<>>) =>
        /\ "result" \in DOMAIN ret[1]
        /\ args[2] = 0 =>
              /\ ret[1].result.error
              /\ ret[1].result.text \in
                    { "Error: Division by zero (prior period value is 0)",
                      "Error: Division by zero.",
                      "Error: Division by zero (EBITDA is 0)." }

C18_Witness ==
    /\ fn = "calculate_leverage"
    /\ args = <<3, 0>>
    /\ ret # <<>>
    /\ ret[1].result.error

\* C19: every result of the three calculators, on the normal path and on
\* the division-by-zero path, holds the formula and the raw inputs.
C19_ResultHasFormulaAndInputs ==
    (fn \in Calculators /\ ret # <<>>) =>
        /\ "formula" \in DOMAIN ret[1]
        /\ "inputs" \in DOMAIN ret[1]

\* C20: check_policy_threshold gives FLAG exactly when the direction is
\* above and value > threshold, or below and value < threshold, and PASS
\* otherwise; value = threshold passes in both directions.
C20_FlagExactlyWhenBeyond ==
    (fn = "check_policy_threshold" /\ ret # <<>>) =>
        LET value == args[2]
            threshold == args[3]
            direction == args[4]
            less == value.n * threshold.d < threshold.n * value.d
            more == value.n * threshold.d > threshold.n * value.d
        IN  /\ ret[1].status \in {"FLAG", "PASS"}
            /\ (ret[1].status = "FLAG") <=>
                  \/ direction = "above" /\ more
                  \/ direction = "below" /\ less
            /\ (~less /\ ~more) => ret[1].status = "PASS"

C20_Witness ==
    /\ fn = "check_policy_threshold"
    /\ args = <<"leverage_ratio", [n |-> 28, d |-> 10], [n |-> 25, d |-> 10], "above">>
    /\ ret # <<>>
    /\ ret[1].status = "FLAG"

\* C21: run_compliance_check reports FLAG exactly when some finding is a
\* FLAG; flags counts the FLAG findings, passes the others, total_checks all
\* of them; a metric without a threshold yields no finding; and the
\* recommendation names the flag count, whether the outcome is FLAG or PASS.
C21_RecommendationNamesFlagCount ==
    (fn = "run_compliance_check" /\ ret # <<>>) =>
        LET r == ret[1]
            metrics == args[1]
            flagged == { i \in DOMAIN r.findings : r.findings[i].status = "FLAG" }
            thresholded == { i \in DOMAIN metrics : metrics[i].name \in PolicyMetrics }
        IN  /\ r.overall_status = (IF flagged # {} THEN "FLAG" ELSE "PASS")
            /\ r.flags = Cardinality(flagged)
            /\ r.passes = Len(r.findings) - Cardinality(flagged)
            /\ r.total_checks = Len(r.findings)
            /\ Len(r.findings) = Cardinality(thresholded)
            /\ \A i \in DOMAIN r.findings :
                   \E j \in thresholded : r.findings[i].metric = metrics[j].name
            /\ r.recommendation[1] = r.flags
---------------------------------------------------------------------------
(* Claims about detect_query_type and detect_tickers, checked under        *)
(* SpecDetect                                                              *)

\* Some keyword of words occurs in text once text is lower-cased.
HasKeyword(text, words) ==
    \E w \in words : \E i, j \in 1..Len(text) : SubSeq(LowerText(text), i, j) = w

\* C22: detect_query_type returns a type for every text: memo when the text
\* holds a memo keyword, whatever else it holds; otherwise compliance when it
\* holds a compliance keyword; otherwise comparative when it holds a
\* comparison keyword; otherwise math when it holds a math keyword; rag when
\* it holds no keyword.
C22_QueryTypePriority ==
    (fn = "detect_query_type" /\ ret # <<>>) =>
        LET q == args[1]
            memo == HasKeyword(q, MemoWords)
            compliance == HasKeyword(q, ComplianceWords)
            comparison == HasKeyword(q, ComparisonWords)
            math == HasKeyword(q, MathWords)
        IN  /\ ret[1] \in {"memo", "compliance", "comparative", "math", "rag"}
            /\ memo => ret[1] = "memo"
            /\ (~memo /\ compliance) => ret[1] = "compliance"
            /\ (~memo /\ ~compliance /\ comparison) => ret[1] = "comparative"
            /\ (~memo /\ ~compliance /\ ~comparison /\ math) => ret[1] = "math"
            /\ (~memo /\ ~compliance /\ ~comparison /\ ~math) => ret[1] = "rag"

\* A text with a memo keyword and a compliance keyword was routed as memo.
C22_Witness ==
    /\ fn = "detect_query_type"
    /\ ret = <<"memo">>
    /\ HasKeyword(args[1], ComplianceWords)

\* t is a whole word of text in some case: a maximal run of word characters
\* that reads t once upper-cased.
IsToken(text, t) ==
    \E i, j \in 1..Len(text) :
        /\ i <= j
        /\ \A k \in i..j : WordChar(text[k])
        /\ i = 1 \/ ~WordChar(text[i - 1])
        /\ j = Len(text) \/ ~WordChar(text[j + 1])
        /\ UpperText(SubSeq(text, i, j)) = TickerChars(t)

\* C23: detect_tickers returns exactly the registry tickers that are a whole
\* word of the text in some case, none that is only part of a longer word,
\* each once and in registry order.
C23_WholeWordRegistryOrder ==
    (fn = "detect_tickers" /\ ret # <<>>) =>
        ret[1] = SelectSeq(TICKERS, LAMBDA t : IsToken(args[1], t))

\* Two tickers typed in lower and upper case, against registry order, came
\* back in registry order.
C23_Witness ==
    /\ fn = "detect_tickers"
    /\ args = <<<<"b", "e", "t", "a", ",", " ", "A", "L", "P", "H">>>>
    /\ ret = <<<<"ALPH", "BETA">>>>
---------------------------------------------------------------------------
(* Claims about _chunk_text, checked under SpecChunk *)

\* C24: with overlap < window, the chunks of a normalized text of length L
\* are its windows at offsets 0, s, 2s, ... for s = window - overlap: all but
\* the last hold window characters, the last holds 1 to window characters
\* and ends at L, each chunk starts with the last overlap characters of the
\* one before it, every character lies in some chunk, and an empty or
\* all-whitespace text gives no chunk.
C24_WindowsAtStride ==
    (fn = "_chunk_text" /\ ret # <<>> /\ args[3] < args[2]) =>
        LET text == NormalizeWhitespace(args[1])
            L == Len(text)
            window == args[2]
            overlap == args[3]
            s == window - overlap
            cs == ret[1]
            n == Len(cs)
        IN  /\ (\A k \in DOMAIN args[1] : args[1][k] \in Whitespace) <=> cs = <<>>
            /\ L = 0 <=> cs = <<>>
            /\ \A k \in 1..n :
                   /\ cs[k] = SubSeq(text, (k - 1) * s + 1, Min((k - 1) * s + window, L))
                   /\ k < n => Len(cs[k]) = window
                   /\ k < n => /\ Len(cs[k + 1]) >= overlap
                               /\ SubSeq(cs[k], window - overlap + 1, window)
                                    = SubSeq(cs[k + 1], 1, overlap)
            /\ n > 0 => /\ Len(cs[n]) \in 1..window
                        /\ (n - 1) * s + Len(cs[n]) = L
            /\ \A pos \in 1..L :
                   \E k \in 1..n : (k - 1) * s < pos /\ pos <= (k - 1) * s + Len(cs[k])

\* A text was cut into chunks that overlap, the last shorter than a window.
C24_Witness ==
    /\ fn = "_chunk_text"
    /\ ret # <<>>
    /\ args[3] \in 1..(args[2] - 1)
    /\ Len(ret[1]) >= 2
    /\ Len(ret[1][Len(ret[1])]) < args[2]

\* C30: _chunk_text returns for every text and every window of at least one
\* character, whatever the overlap: each iteration starts at a larger offset
\* than the one before, one larger when overlap >= window, and there are
\* never more chunks than the normalized text has characters.
C30_ChunkingTerminates ==
    /\ [][(frame # <<>> /\ frame' # <<>> /\ ret' = <<>>) =>
            /\ frame'[1].i > frame[1].i
            /\ args[3] >= args[2] => frame'[1].i = frame[1].i + 1]_vars
    /\ [](frame # <<>> => Len(frame[1].chunks) <= Len(frame[1].text))
    /\ <>(ret # <<>>)

\* A call with overlap >= window returned one chunk for each character.
C30_Witness ==
    /\ fn = "_chunk_text"
    /\ args[3] >= args[2]
    /\ ret # <<>>
    /\ Len(ret[1]) = MaxTextLen
---------------------------------------------------------------------------
(* Claims about concurrent queries, checked under SpecShared *)

\* C25: whatever the callers have done so far and however their steps
\* interleave, every record, its embedding included, and every matrix row
\* is as load_index returned it.
C25_IndexNeverMutated ==
    /\ records = LoadRecords(index_lines)
    /\ matrix = LoadMatrix(index_lines)

\* One caller has finished a query and is in the middle of the next while
\* the other is in the middle of copying its hits.
C25_Witness ==
    /\ frame["c1"].calls > 0
    /\ frame["c1"].pc = "copy" /\ frame["c1"].out # <<>> /\ frame["c1"].idxs # <<>>
    /\ frame["c2"].pc = "copy" /\ frame["c2"].out # <<>> /\ frame["c2"].idxs # <<>>
---------------------------------------------------------------------------
(* More claims about run_query, checked under Spec *)

\* C26: for every ticker whose numeric metrics hold NetDebt_to_EBITDA, the
\* Quant state records a Leverage Ratio whose result is that loaded ratio,
\* whatever EBITDA_TTM is: present, absent or zero.
C26_LeverageReproducesRatio ==
    \A t \in DOMAIN all_metrics_numeric :
        "NetDebt_to_EBITDA" \in DOMAIN all_metrics_numeric[t] =>
            \E i \in DOMAIN result.math_results :
                LET m == result.math_results[i]
                IN  /\ m.ticker = t
                    /\ m.calculation = "Leverage Ratio"
                    /\ ~m.result.error
                    /\ m.result.hundredths
                         = 100 * all_metrics_numeric[t]["NetDebt_to_EBITDA"]
\* The tickers of the Compliance steps of a trace, in trace order.
ComplianceStepTickers(trace) ==
    LET steps == SelectSeq(trace, LAMBDA st : st.agent = ComplianceOfficer)
    IN  [i \in DOMAIN steps |-> steps[i].ticker]

\* C27: once the compliance loop of a compliance or memo query is over, the
\* trace has one Compliance step for each detected ticker whose check
\* metrics are non-empty, in registry order, and result.compliance is one
\* result: that of the last such ticker.
C27_LastTickerOverwrites ==
    (pc \in {"synthesize", "returned"} /\ RunsCompliance(query_type, tickers)) =>
        LET due == SelectSeq(tickers, LAMBDA t : t \in Checkable)
        IN  /\ ComplianceStepTickers(result.trace) = due
            /\ due = <<>> => result.compliance = <<>>
            /\ due # <<>> =>
                  /\ Len(result.compliance) = 1
                  /\ result.compliance[1].ticker = due[Len(due)]
                  /\ result.compliance[1].total_checks
                       = Len(CheckMetrics(all_metrics_numeric[due[Len(due)]]))

\* A query about two tickers returned with two Compliance steps and the
\* second ticker's result.
C27_Witness ==
    /\ delivered # <<>>
    /\ ComplianceStepTickers(delivered[1].trace) = <<"ALPH", "BETA">>
    /\ delivered[1].compliance[1].ticker = "BETA"

\* C28: the keys load_metrics_numeric returns for a file are among the keys
\* load_metrics returns for it, so every entry of math_results for a ticker
\* comes with a Quant step for that ticker in the trace.
C28_NumericKeysAreDisplayKeys ==
    /\ \A t \in DOMAIN all_metrics_numeric :
          /\ t \in DOMAIN all_metrics
          /\ DOMAIN all_metrics_numeric[t] \subseteq DOMAIN all_metrics[t]
    /\ \A i \in DOMAIN result.math_results :
          \E j \in StepsOf(result.trace, QuantAnalyst) :
             result.trace[j].ticker = result.math_results[i].ticker

\* A returned result holds a calculation, and a file had a metric with a
\* value that is not a number.
C28_Witness ==
    /\ delivered # <<>>
    /\ delivered[1].math_results # <<>>
    /\ \E t \in DOMAIN all_metrics :
          /\ DOMAIN all_metrics_numeric[t] # {}
          /\ DOMAIN all_metrics_numeric[t] # DOMAIN all_metrics[t]
---------------------------------------------------------------------------
(* One more claim about build_index and load_index, checked under          *)
(* SpecBuildLoad                                                           *)

\* C29: index.jsonl appears only once every batch has been embedded; a call
\* that ends because the embedding gateway failed on a batch, or because the
\* documents gave no chunk, leaves neither index.jsonl nor manifest.json; a
\* build_index call that finds no index.jsonl is not skipped, and a
\* load_index call that finds none raises FileNotFoundError.
C29_NoIndexAfterFailedBuild ==
    /\ []((bstate = "raised" /\ embed_calls > 0 /\ next_doc > Len(IterFiles(documents)))
            => (~index_exists /\ ~manifest_exists))
    /\ [][
          /\ (~index_exists /\ index_exists') =>
                (bstate = "write" /\ chunks # <<>> /\ next_batch >= Len(chunks))
          /\ ((bstate = "embed" /\ bstate' = "raised") \/ (bstate = "read" /\ bstate' = "done"))
                => (~index_exists' /\ ~manifest_exists')
          /\ (~index_exists /\ build_calls' # build_calls) => bstate' = "read"
          /\ (~index_exists /\ load_state = "no" /\ load_state' # "no")
                => load_state' = "FileNotFoundError"
       ]_vars

\* After a call that the gateway failed, load_index raised FileNotFoundError
\* and a second call went on to read the documents.
C29_Witness ==
    /\ build_calls = 2
    /\ bstate = "read"
    /\ embed_calls > 0
    /\ ~index_exists
    /\ ~manifest_exists
    /\ load_state = "FileNotFoundError"
====
